---- MODULE Spec2Model ----
(***************************************************************************)
(* Model of the outline-structure tools of logseq-utils:                   *)
(*   - clean_journal.py: clean_journal_content and its helpers;            *)
(*   - md_to_logseq_outline.py: parse_markdown_blocks and                  *)
(*     convert_to_logseq_outline.                                          *)
(* A Python str is a sequence of one-character strings, so that strip,     *)
(* startswith, split and join are computed and not assumed.                *)
(***************************************************************************)
EXTENDS Integers, Sequences, FiniteSets, TLC

\* ---------------------------------------------------------------- bounds
MaxLines == 3
MaxIndent == 2
MaxChars == 5
MaxMdLines == 3
MaxFiles == 2
MaxEpisodes == 2
MaxRuns == 2
MaxTotalLines == 2
\* timedelta(days=365) of get_journal_files_to_clean
DaysBack == 365

\* ------------------------------------------------------- string helpers
NL == "\n"
Whitespace == {" ", "\t", NL}

RECURSIVE LStrip(_)
\* str.lstrip(): drop the leading whitespace characters
LStrip(s) ==
    IF s # <<>> /\ Head(s) \in Whitespace THEN LStrip(Tail(s)) ELSE s

RECURSIVE RStrip(_)
\* str.rstrip(): drop the trailing whitespace characters
RStrip(s) ==
    IF s # <<>> /\ s[Len(s)] \in Whitespace
    THEN RStrip(SubSeq(s, 1, Len(s) - 1))
    ELSE s

\* str.strip()
Strip(s) == RStrip(LStrip(s))

\* str.startswith(p)
StartsWith(s, p) == Len(s) >= Len(p) /\ SubSeq(s, 1, Len(p)) = p

\* s[n:] of Python
DropPrefix(s, n) == IF n >= Len(s) THEN <<>> ELSE SubSeq(s, n + 1, Len(s))

RECURSIVE SplitLines(_)
\* content.split("\n"): always at least one piece
SplitLines(s) ==
    IF \E k \in 1..Len(s) : s[k] = NL
    THEN LET k == CHOOSE j \in 1..Len(s) :
                      s[j] = NL /\ \A m \in 1..(j - 1) : s[m] # NL
         IN <<SubSeq(s, 1, k - 1)>> \o SplitLines(DropPrefix(s, k))
    ELSE <<s>>

RECURSIVE JoinLines(_)
\* "\n".join(ls)
JoinLines(ls) ==
    IF ls = <<>> THEN <<>>
    ELSE IF Len(ls) = 1 THEN ls[1]
    ELSE ls[1] \o <<NL>> \o JoinLines(Tail(ls))

\* n spaces
Spaces(n) == [k \in 1..n |-> " "]

\* ------------------------------------------------- clean_journal helpers
\* get_indentation_level giving a whitespace-only line the indent 0
get_indentation_level_blank0(line) ==
    IF LStrip(line) = <<>> THEN 0 ELSE Len(line) - Len(LStrip(line))

\* get_indentation_level
get_indentation_level(line) == Len(line) - Len(LStrip(line))

\* is_section_heading testing for one '#' where the code tests for "##"
is_section_heading_onehash(line) ==
    LET stripped == Strip(line)
        cand == IF StartsWith(stripped, <<"-", " ", "#">>)
                THEN DropPrefix(stripped, 2)
                ELSE stripped
    IN StartsWith(cand, <<"#">>)

\* is_section_heading
is_section_heading(line) ==
    LET stripped == Strip(line)
        cand == IF StartsWith(stripped, <<"-", " ", "#", "#">>)
                THEN DropPrefix(stripped, 2)
                ELSE stripped
    IN StartsWith(cand, <<"#", "#">>)

\* Optional[Section]: <<>> is None, <<s>> an open section
None == <<>>
Section(heading, indent_level, content) ==
    [heading |-> heading, indent_level |-> indent_level, content |-> content]

RECURSIVE ScanContent(_, _, _)
\* the for loop of has_nested_content over section.content[k..]:
\* returns <<has_content, has_only_headings>> at loop exit
ScanContent(section, k, has_content) ==
    IF k > Len(section.content) THEN <<has_content, TRUE>>
    ELSE LET line == section.content[k][1]
             indent == section.content[k][2]
         IN IF Strip(line) = <<>>
            THEN ScanContent(section, k + 1, has_content)
            ELSE IF indent > section.indent_level
                 THEN IF ~is_section_heading(line)
                      THEN <<TRUE, FALSE>>
                      ELSE ScanContent(section, k + 1, TRUE)
                 ELSE ScanContent(section, k + 1, has_content)

\* has_nested_content without the "skip empty lines" test
has_nested_content_noskip(section) ==
    \E k \in DOMAIN section.content :
        /\ section.content[k][2] > section.indent_level
        /\ ~is_section_heading(section.content[k][1])

\* has_nested_content
has_nested_content(section) ==
    LET r == ScanContent(section, 1, FALSE)
    IN r[1] /\ ~r[2]

\* process_section dropping the blank lines of a section it keeps
KeptContent_noblank(section) ==
    SelectSeq([k \in 1..Len(section.content) |-> k],
              LAMBDA k : IF has_nested_content(section)
                         THEN Strip(section.content[k][1]) # <<>>
                         ELSE section.content[k][2] <= section.indent_level)

\* the entries of section.content that process_section emits, as indexes
\* into section.content (the two generator expressions)
KeptContent(section) ==
    IF has_nested_content(section)
    THEN [k \in 1..Len(section.content) |-> k]
    ELSE SelectSeq([k \in 1..Len(section.content) |-> k],
                   LAMBDA k : section.content[k][2] <= section.indent_level)

\* process_section applying the indent filter of the else branch in both branches
process_section_filtered(section, cl) ==
    LET body == SelectSeq(section.content,
                          LAMBDA e : e[2] <= section.indent_level)
        texts == [j \in 1..Len(body) |-> body[j][1]]
    IN IF has_nested_content(section)
       THEN Append(cl, section.heading) \o texts
       ELSE cl \o texts

\* process_section: the new value of cleaned_lines
process_section(section, cl) ==
    LET kept == KeptContent(section)
        body == [j \in 1..Len(kept) |-> section.content[kept[j]][1]]
    IN IF has_nested_content(section)
       THEN Append(cl, section.heading) \o body
       ELSE cl \o body

\* ------------------------------------------------------------ the state
VARIABLES
    pc,               \* position in the running function
    input,            \* the text the run started from
    content,          \* argument of the current clean_journal_content call
    lines,            \* content.split("\n")
    pos,              \* cursor of "for line in lines" (next line, 1-based)
    cleaned_lines,    \* List[str]
    current_section,  \* Optional[Section]
    result,           \* value returned by the current call
    run,              \* 1: first call; 2: the call on the first call's result
    first,            \* value returned by the first call
    hist,             \* history: where each emitted line and section came from
    markdown_text,    \* argument of convert_to_logseq_outline
    paragraph_mode,   \* "lines" or "blocks"
    md_lines,         \* markdown_text.splitlines()
    i,                \* index into md_lines (next line, 1-based)
    blocks,           \* List[(kind, level, text)]
    pending_paragraph_lines,
    outline_lines,    \* List[str]
    current_heading_level,
    blk,              \* cursor of "for kind, level, text in blocks" (1-based)
    outline,          \* value returned by convert_to_logseq_outline
    md_hist,          \* history: the input lines each block was made from
    args,             \* the parsed command line and standard input of the tool
    today,            \* datetime.now().date(), as a day number
    disk,             \* the files: path -> [readable, write, text]
    journal_files,    \* List[Path] given to clean_journal_files
    file_at,          \* cursor of "for journal_file in journal_files" (1-based)
    cleaned_count,    \* int
    exit_code,        \* exit status of the process, <<>> while it runs
    io,               \* history: what was done with each file, in order
    shows,            \* the shows of write_show_files with their episodes
    show_at,          \* cursor of "for show_name, episodes in shows.items()"
    runs              \* number of write_show_files runs started

cj_vars == <<input, content, lines, pos, cleaned_lines, current_section,
             result, run, first, hist>>
md_vars == <<markdown_text, paragraph_mode, md_lines, i, blocks,
             pending_paragraph_lines, outline_lines, current_heading_level,
             blk, outline, md_hist>>
run_vars == <<args, today, disk, journal_files, file_at, cleaned_count,
              exit_code, io>>
snipd_vars == <<shows, show_at, runs>>
ext_vars == <<run_vars, snipd_vars>>
vars == <<pc, cj_vars, md_vars, ext_vars>>

\* the tools' variables while a function runs on its own
ExtIdle ==
    /\ args = <<>>
    /\ today = 0
    /\ disk = <<>>
    /\ journal_files = <<>>
    /\ file_at = 0
    /\ cleaned_count = 0
    /\ exit_code = <<>>
    /\ io = <<>>
    /\ shows = <<>>
    /\ show_at = 0
    /\ runs = 0

\* the converter's variables while the journal cleaner runs
MdIdle ==
    /\ markdown_text = <<>>
    /\ paragraph_mode = "lines"
    /\ md_lines = <<>>
    /\ i = 0
    /\ blocks = <<>>
    /\ pending_paragraph_lines = <<>>
    /\ outline_lines = <<>>
    /\ current_heading_level = 0
    /\ blk = 0
    /\ outline = <<>>
    /\ md_hist = [from |-> <<>>, pending_at |-> <<>>]

\* ----------------------------------------------------------- the inputs
\* what follows the indentation of a line of the journal pool
Bodies == { <<>>, <<"x">>, <<"#", "#">>, <<"-", " ", "#", "#">> }
LinePool == { Spaces(n) \o b : n \in 0..MaxIndent, b \in Bodies }
LineSeqs == UNION { [1..n -> LinePool] : n \in 1..MaxLines }

\* history of a call that has not consumed a line yet
NoHist == [origin |-> <<>>, open_at |-> <<>>, open_content_at |-> <<>>,
           processed |-> <<>>, passed |-> <<>>]

\* the state before clean_journal_content(text) runs
Enter(text) ==
    /\ pc = "start"
    /\ input = text
    /\ content = text
    /\ lines = <<>>
    /\ pos = 0
    /\ cleaned_lines = <<>>
    /\ current_section = None
    /\ result = <<>>
    /\ run = 1
    /\ first = <<>>
    /\ hist = NoHist
    /\ MdIdle
    /\ ExtIdle

Init == \E ls \in LineSeqs : Enter(JoinLines(ls))

\* any text of at most MaxChars characters, line breaks included
Alphabet == {" ", "#", "-", "x", NL}
Texts == UNION { [1..n -> Alphabet] : n \in 0..MaxChars }
InitChars == \E t \in Texts : Enter(t)

\* -------------------------------------------- clean_journal_content steps
\* history after process_section(current_section), called because of `by`
Processed(h, section, by) ==
    LET kept == KeptContent(section)
        keeps == has_nested_content(section)
    IN [h EXCEPT
          !.origin = h.origin
                     \o (IF keeps THEN h.open_at ELSE <<>>)
                     \o [j \in 1..Len(kept) |-> h.open_content_at[kept[j]]],
          !.processed = Append(h.processed,
                               [at |-> h.open_at[1],
                                content_at |-> h.open_content_at,
                                kept |-> keeps,
                                by |-> by]),
          !.open_at = <<>>,
          !.open_content_at = <<>>]

\* lines = content.split("\n"); cleaned_lines = []; current_section = None
Start ==
    /\ pc = "start"
    /\ lines' = SplitLines(content)
    /\ pos' = 1
    /\ cleaned_lines' = <<>>
    /\ current_section' = None
    /\ hist' = NoHist
    /\ pc' = "loop"
    /\ UNCHANGED <<input, content, result, run, first>>
    /\ UNCHANGED <<md_vars, ext_vars>>

\* HeadingLine adding a heading deeper than the open section's to its content
HeadingLine_joins ==
    /\ pc = "loop"
    /\ pos <= Len(lines)
    /\ is_section_heading(lines[pos])
    /\ LET joins == IF current_section = None THEN FALSE
                    ELSE get_indentation_level(lines[pos])
                             > current_section[1].indent_level
       IN /\ cleaned_lines' =
                 IF current_section # None /\ ~joins
                 THEN process_section(current_section[1], cleaned_lines)
                 ELSE cleaned_lines
          /\ current_section' =
                 IF joins
                 THEN <<[current_section[1] EXCEPT
                           !.content = Append(@, <<lines[pos],
                                                   get_indentation_level(lines[pos])>>)]>>
                 ELSE <<Section(lines[pos], get_indentation_level(lines[pos]), <<>>)>>
          /\ hist' =
                 IF joins
                 THEN [hist EXCEPT !.open_content_at = Append(@, pos)]
                 ELSE [(IF current_section # None
                        THEN Processed(hist, current_section[1], "heading")
                        ELSE hist)
                       EXCEPT !.open_at = <<pos>>, !.open_content_at = <<>>]
    /\ pos' = pos + 1
    /\ UNCHANGED <<pc, input, content, lines, result, run, first>>
    /\ UNCHANGED <<md_vars, ext_vars>>

\* loop body, is_section_heading(line): close the open section, open a new one
HeadingLine ==
    /\ pc = "loop"
    /\ pos <= Len(lines)
    /\ is_section_heading(lines[pos])
    /\ cleaned_lines' = IF current_section # None
                        THEN process_section(current_section[1], cleaned_lines)
                        ELSE cleaned_lines
    /\ current_section' =
           <<Section(lines[pos], get_indentation_level(lines[pos]), <<>>)>>
    /\ hist' = [(IF current_section # None
                 THEN Processed(hist, current_section[1], "heading")
                 ELSE hist)
                EXCEPT !.open_at = <<pos>>, !.open_content_at = <<>>]
    /\ pos' = pos + 1
    /\ UNCHANGED <<pc, input, content, lines, result, run, first>>
    /\ UNCHANGED <<md_vars, ext_vars>>

\* ShallowLine without cleaned_lines.append(line)
ShallowLine_lost ==
    /\ pc = "loop"
    /\ pos <= Len(lines)
    /\ ~is_section_heading(lines[pos])
    /\ current_section # None
    /\ get_indentation_level(lines[pos]) <= current_section[1].indent_level
    /\ cleaned_lines' = process_section(current_section[1], cleaned_lines)
    /\ current_section' = None
    /\ hist' = Processed(hist, current_section[1], "shallow")
    /\ pos' = pos + 1
    /\ UNCHANGED <<pc, input, content, lines, result, run, first>>
    /\ UNCHANGED <<md_vars, ext_vars>>

\* ShallowLine appending the line before it processes the section
ShallowLine_early ==
    /\ pc = "loop"
    /\ pos <= Len(lines)
    /\ ~is_section_heading(lines[pos])
    /\ current_section # None
    /\ get_indentation_level(lines[pos]) <= current_section[1].indent_level
    /\ cleaned_lines' =
           process_section(current_section[1], Append(cleaned_lines, lines[pos]))
    /\ current_section' = None
    /\ hist' = LET h == Processed([hist EXCEPT !.origin = Append(@, pos)],
                                  current_section[1], "shallow")
               IN [h EXCEPT !.passed = Append(h.passed, pos)]
    /\ pos' = pos + 1
    /\ UNCHANGED <<pc, input, content, lines, result, run, first>>
    /\ UNCHANGED <<md_vars, ext_vars>>

\* ShallowLine leaving the section open
ShallowLine_open ==
    /\ pc = "loop"
    /\ pos <= Len(lines)
    /\ ~is_section_heading(lines[pos])
    /\ current_section # None
    /\ get_indentation_level(lines[pos]) <= current_section[1].indent_level
    /\ cleaned_lines' =
           Append(process_section(current_section[1], cleaned_lines), lines[pos])
    /\ current_section' = <<[current_section[1] EXCEPT !.content = <<>>]>>
    /\ hist' = LET h == Processed(hist, current_section[1], "shallow")
               IN [h EXCEPT !.origin = Append(h.origin, pos),
                            !.passed = Append(h.passed, pos),
                            !.open_at = hist.open_at]
    /\ pos' = pos + 1
    /\ UNCHANGED <<pc, input, content, lines, result, run, first>>
    /\ UNCHANGED <<md_vars, ext_vars>>

\* loop body, non-heading line with indent_level <= current_section.indent_level
ShallowLine ==
    /\ pc = "loop"
    /\ pos <= Len(lines)
    /\ ~is_section_heading(lines[pos])
    /\ current_section # None
    /\ get_indentation_level(lines[pos]) <= current_section[1].indent_level
    /\ cleaned_lines' =
           Append(process_section(current_section[1], cleaned_lines), lines[pos])
    /\ current_section' = None
    /\ hist' = LET h == Processed(hist, current_section[1], "shallow")
               IN [h EXCEPT !.origin = Append(h.origin, pos),
                            !.passed = Append(h.passed, pos)]
    /\ pos' = pos + 1
    /\ UNCHANGED <<pc, input, content, lines, result, run, first>>
    /\ UNCHANGED <<md_vars, ext_vars>>

\* loop body, non-heading line deeper than the open section's heading
DeeperLine ==
    /\ pc = "loop"
    /\ pos <= Len(lines)
    /\ ~is_section_heading(lines[pos])
    /\ current_section # None
    /\ ~(get_indentation_level(lines[pos]) <= current_section[1].indent_level)
    /\ current_section' =
           <<[current_section[1] EXCEPT
                !.content = Append(@, <<lines[pos],
                                        get_indentation_level(lines[pos])>>)]>>
    /\ hist' = [hist EXCEPT !.open_content_at = Append(@, pos)]
    /\ pos' = pos + 1
    /\ UNCHANGED <<pc, input, content, lines, cleaned_lines, result, run, first>>
    /\ UNCHANGED <<md_vars, ext_vars>>

\* PassthroughLine emitting the line without its surrounding whitespace
PassthroughLine_strip ==
    /\ pc = "loop"
    /\ pos <= Len(lines)
    /\ ~is_section_heading(lines[pos])
    /\ current_section = None
    /\ cleaned_lines' = Append(cleaned_lines, Strip(lines[pos]))
    /\ hist' = [hist EXCEPT !.origin = Append(@, pos),
                            !.passed = Append(@, pos)]
    /\ pos' = pos + 1
    /\ UNCHANGED <<pc, input, content, lines, current_section, result, run, first>>
    /\ UNCHANGED <<md_vars, ext_vars>>

\* loop body, non-heading line while no section is open
PassthroughLine ==
    /\ pc = "loop"
    /\ pos <= Len(lines)
    /\ ~is_section_heading(lines[pos])
    /\ current_section = None
    /\ cleaned_lines' = Append(cleaned_lines, lines[pos])
    /\ hist' = [hist EXCEPT !.origin = Append(@, pos),
                            !.passed = Append(@, pos)]
    /\ pos' = pos + 1
    /\ UNCHANGED <<pc, input, content, lines, current_section, result, run, first>>
    /\ UNCHANGED <<md_vars, ext_vars>>

\* Finish returning without processing the section that is still open
Finish_noflush ==
    /\ pc = "loop"
    /\ pos > Len(lines)
    /\ result' = JoinLines(cleaned_lines)
    /\ first' = IF run = 1 THEN result' ELSE first
    /\ pc' = "done"
    /\ UNCHANGED <<input, content, lines, pos, cleaned_lines, current_section,
                   run, hist>>
    /\ UNCHANGED <<md_vars, ext_vars>>

\* after the loop: process the last section, return "\n".join(cleaned_lines)
Finish ==
    /\ pc = "loop"
    /\ pos > Len(lines)
    /\ cleaned_lines' = IF current_section # None
                        THEN process_section(current_section[1], cleaned_lines)
                        ELSE cleaned_lines
    /\ hist' = IF current_section # None
               THEN Processed(hist, current_section[1], "eof")
               ELSE hist
    /\ result' = JoinLines(cleaned_lines')
    /\ first' = IF run = 1 THEN result' ELSE first
    /\ pc' = "done"
    /\ UNCHANGED <<input, content, lines, pos, current_section, run>>
    /\ UNCHANGED <<md_vars, ext_vars>>

\* clean_journal_content(clean_journal_content(x)): the second call
Reclean ==
    /\ pc = "done"
    /\ run = 1
    /\ content' = result
    /\ run' = 2
    /\ pc' = "start"
    /\ UNCHANGED <<input, lines, pos, cleaned_lines, current_section, result,
                   first, hist>>
    /\ UNCHANGED <<md_vars, ext_vars>>

Next ==
    \/ Start
    \/ HeadingLine
    \/ ShallowLine
    \/ DeeperLine
    \/ PassthroughLine
    \/ Finish
    \/ Reclean

Spec == Init /\ [][Next]_vars

\* the same program on arbitrary short texts
SpecChars == InitChars /\ [][Next]_vars

\* one call of clean_journal_content, its result not cleaned again
NextOnce ==
    \/ Start
    \/ HeadingLine
    \/ ShallowLine
    \/ DeeperLine
    \/ PassthroughLine
    \/ Finish

SpecOnce == Init /\ [][NextOnce]_vars

\* ------------------------------------------ md_to_logseq_outline helpers
RECURSIVE HashRun(_)
\* the number of '#' characters s starts with
HashRun(s) == IF s # <<>> /\ Head(s) = "#" THEN 1 + HashRun(Tail(s)) ELSE 0

RECURSIVE RStripHashes(_)
\* s without the '#' characters it ends with
RStripHashes(s) ==
    IF s # <<>> /\ s[Len(s)] = "#"
    THEN RStripHashes(SubSeq(s, 1, Len(s) - 1))
    ELSE s

\* n '#' characters: '#' * level
Hashes(n) == [k \in 1..n |-> "#"]

\* markdown_text.splitlines(): the pieces between line breaks, without a last
\* empty piece
Splitlines(s) ==
    LET pieces == SplitLines(s)
    IN IF pieces[Len(pieces)] = <<>>
       THEN SubSeq(pieces, 1, Len(pieces) - 1)
       ELSE pieces

\* parse_atx_heading, after ATX_HEADING_RE: one to six '#', whitespace, the text
\* without trailing whitespace and trailing '#'s; <<>> is None, else <<level, text>>
parse_atx_heading(s) ==
    LET h == HashRun(s)
    IN IF h \in 1..6 /\ Len(s) > h /\ s[h + 1] \in Whitespace
       THEN <<h, RStrip(RStripHashes(RStrip(LStrip(DropPrefix(s, h)))))>>
       ELSE <<>>

\* is_setext_underline: 1 for a line of '=' only, 2 for a line of '-' only
\* (surrounding whitespace allowed), 0 otherwise
is_setext_underline(line) ==
    LET t == Strip(line)
    IN IF t # <<>> /\ \A k \in DOMAIN t : t[k] = "="
       THEN 1
       ELSE IF t # <<>> /\ \A k \in DOMAIN t : t[k] = "-"
            THEN 2
            ELSE 0

\* make_indent(level, width): level * width spaces
make_indent(level, width) == Spaces(level * width)

\* a block (kind, level, text); level 0 stands for None
Block(kind, level, text) == [kind |-> kind, level |-> level, text |-> text]

RECURSIVE JoinWords(_)
\* " ".join(ls)
JoinWords(ls) ==
    IF ls = <<>> THEN <<>>
    ELSE IF Len(ls) = 1 THEN ls[1]
    ELSE ls[1] \o <<" ">> \o JoinWords(Tail(ls))

\* flush_paragraph joining the pending lines as they are, untrimmed
flush_paragraph_untrimmed(bs, pending) ==
    LET kept == SelectSeq(pending, LAMBDA l : Strip(l) # <<>>)
        paragraph_text == JoinWords(kept)
    IN IF pending # <<>> /\ paragraph_text # <<>>
       THEN Append(bs, Block("paragraph", 0, paragraph_text))
       ELSE bs

\* flush_paragraph: the new value of blocks (pending_paragraph_lines becomes [])
flush_paragraph(bs, pending) ==
    LET kept == SelectSeq(pending, LAMBDA l : Strip(l) # <<>>)
        paragraph_text == JoinWords([k \in 1..Len(kept) |-> Strip(kept[k])])
    IN IF pending # <<>> /\ paragraph_text # <<>>
       THEN Append(bs, Block("paragraph", 0, paragraph_text))
       ELSE bs

\* candidate_heading of parse_markdown_blocks
candidate_heading(line) ==
    LET stripped_line == Strip(line)
    IN IF StartsWith(stripped_line, <<"-", " ">>)
       THEN Strip(DropPrefix(stripped_line, 2))
       ELSE stripped_line

\* the line of a heading block with indent level = level itself
heading_entry_deep(level, text) ==
    make_indent(level, 2) \o <<"-", " ">> \o Hashes(level) \o <<" ">> \o text

\* the outline line of a heading block: f"{indent}- {'#' * level} {text}"
heading_entry(level, text) ==
    LET indent_level == IF level - 1 > 0 THEN level - 1 ELSE 0
    IN make_indent(indent_level, 2) \o <<"-", " ">> \o Hashes(level)
       \o <<" ">> \o text

\* base_indent_level placing a paragraph beside its heading
base_indent_level_sibling(chl) == IF chl > 0 THEN chl - 1 ELSE 0

\* base_indent_level of a paragraph block
base_indent_level(chl) == IF chl > 0 THEN chl ELSE 0

\* candidate keeping the bullet marker the text already has
candidate_kept(text) ==
    text

\* candidate of a paragraph block: text[2:].lstrip() if text.startswith("- ")
candidate(text) ==
    IF StartsWith(text, <<"-", " ">>) THEN LStrip(DropPrefix(text, 2)) ELSE text

\* characters of the model's alphabet in [A-Za-z0-9_-] and [A-Za-z0-9 _-]
KeyStart == {"x", "y", "k", "v", "_", "-"}
KeyRest == KeyStart \cup {" "}

\* the property pattern without its first character class: [A-Za-z0-9 _-]*::
is_property_anykey(s) ==
    \E n \in 0..(Len(s) - 2) :
        /\ \A j \in 1..n : s[j] \in KeyRest
        /\ s[n + 1] = ":" /\ s[n + 2] = ":"

\* re.match(r"^[A-Za-z0-9_-][A-Za-z0-9 _-]*::", s)
is_property(s) ==
    \E n \in 1..(Len(s) - 2) :
        /\ s[1] \in KeyStart
        /\ \A j \in 2..n : s[j] \in KeyRest
        /\ s[n + 1] = ":" /\ s[n + 2] = ":"

\* ------------------------------------------------- the converter's inputs
MdPool == {
    <<>>,
    <<"x">>,
    <<" ", "y", " ">>,
    <<"#", " ", "x">>,
    <<"#", "#", " ", "x">>,
    <<"-", " ", "#", "#", "#", " ", "x">>,
    <<"#", "#", "#", "#", "#", "#", " ", "x", " ", "#">>,
    <<"=">>,
    <<"-">>,
    <<"-", " ", "x">>,
    <<"-", " ", "-", " ", "x">>,
    <<"k", ":", ":", " ", "v">>,
    <<"-", " ", "k", ":", ":", " ", "v">>,
    <<"-", " ", ":", ":", " ", "v">> }
MdLineSeqs == UNION { [1..n -> MdPool] : n \in 1..MaxMdLines }

\* the cleaner's variables while the converter runs
CjIdle ==
    /\ input = <<>>
    /\ content = <<>>
    /\ lines = <<>>
    /\ pos = 0
    /\ cleaned_lines = <<>>
    /\ current_section = None
    /\ result = <<>>
    /\ run = 0
    /\ first = <<>>
    /\ hist = NoHist

NoMdHist == [from |-> <<>>, pending_at |-> <<>>]

InitConv ==
    \E ls \in MdLineSeqs, mode \in {"lines", "blocks"} :
        /\ pc = "md_start"
        /\ markdown_text = JoinLines(ls)
        /\ paragraph_mode = mode
        /\ md_lines = <<>>
        /\ i = 0
        /\ blocks = <<>>
        /\ pending_paragraph_lines = <<>>
        /\ outline_lines = <<>>
        /\ current_heading_level = 0
        /\ blk = 0
        /\ outline = <<>>
        /\ md_hist = NoMdHist
        /\ CjIdle
        /\ ExtIdle

\* ----------------------------------------------- parse_markdown_blocks steps
\* history after flush_paragraph
Flushed(h, bs, pending) ==
    IF flush_paragraph(bs, pending) # bs
    THEN [from |-> Append(h.from, [at |-> h.pending_at[1], how |-> "block",
                                   n |-> Len(h.pending_at)]),
          pending_at |-> <<>>]
    ELSE [h EXCEPT !.pending_at = <<>>]

\* history after a block made from the line at i
Made(h, how, n) ==
    [h EXCEPT !.from = Append(@, [at |-> i, how |-> how, n |-> n])]

\* FlushIfBlocks without the flush: the pending lines stay pending
FlushIfBlocks_never ==
    <<blocks, md_hist, pending_paragraph_lines>>

\* blocks and history after the flush a heading or blank line does in blocks mode
FlushIfBlocks ==
    IF paragraph_mode = "blocks"
    THEN <<flush_paragraph(blocks, pending_paragraph_lines),
           Flushed(md_hist, blocks, pending_paragraph_lines), <<>>>>
    ELSE <<blocks, md_hist, pending_paragraph_lines>>

\* lines = markdown_text.splitlines(); blocks = []; i = 0; pending = []
MdStart ==
    /\ pc = "md_start"
    /\ md_lines' = Splitlines(markdown_text)
    /\ blocks' = <<>>
    /\ i' = 1
    /\ pending_paragraph_lines' = <<>>
    /\ md_hist' = NoMdHist
    /\ pc' = "parse"
    /\ UNCHANGED <<markdown_text, paragraph_mode, outline_lines,
                   current_heading_level, blk, outline>>
    /\ UNCHANGED <<cj_vars, ext_vars>>

\* ParseBlank making an empty paragraph block of the blank line
ParseBlank_entry ==
    /\ pc = "parse"
    /\ i <= Len(md_lines)
    /\ Strip(md_lines[i]) = <<>>
    /\ blocks' = Append(FlushIfBlocks[1], Block("paragraph", 0, <<>>))
    /\ md_hist' = [FlushIfBlocks[2] EXCEPT
                     !.from = Append(@, [at |-> i, how |-> "line", n |-> 1])]
    /\ pending_paragraph_lines' = FlushIfBlocks[3]
    /\ i' = i + 1
    /\ UNCHANGED <<pc, markdown_text, paragraph_mode, md_lines, outline_lines,
                   current_heading_level, blk, outline>>
    /\ UNCHANGED <<cj_vars, ext_vars>>

\* loop body: "if not line.strip()"
ParseBlank ==
    /\ pc = "parse"
    /\ i <= Len(md_lines)
    /\ Strip(md_lines[i]) = <<>>
    /\ blocks' = FlushIfBlocks[1]
    /\ md_hist' = FlushIfBlocks[2]
    /\ pending_paragraph_lines' = FlushIfBlocks[3]
    /\ i' = i + 1
    /\ UNCHANGED <<pc, markdown_text, paragraph_mode, md_lines, outline_lines,
                   current_heading_level, blk, outline>>
    /\ UNCHANGED <<cj_vars, ext_vars>>

\* loop body: "if atx"
ParseAtx ==
    /\ pc = "parse"
    /\ i <= Len(md_lines)
    /\ Strip(md_lines[i]) # <<>>
    /\ LET atx == parse_atx_heading(candidate_heading(md_lines[i]))
       IN /\ atx # <<>>
          /\ blocks' = Append(FlushIfBlocks[1], Block("heading", atx[1], atx[2]))
          /\ md_hist' = [FlushIfBlocks[2] EXCEPT
                           !.from = Append(@,
                               [at |-> i,
                                how |-> IF StartsWith(Strip(md_lines[i]), <<"-", " ">>)
                                        THEN "bullet_atx" ELSE "atx",
                                n |-> 1])]
    /\ pending_paragraph_lines' = FlushIfBlocks[3]
    /\ i' = i + 1
    /\ UNCHANGED <<pc, markdown_text, paragraph_mode, md_lines, outline_lines,
                   current_heading_level, blk, outline>>
    /\ UNCHANGED <<cj_vars, ext_vars>>

\* the setext test passes: a next line exists and is an underline
SetextHere ==
    /\ i + 1 <= Len(md_lines)
    /\ is_setext_underline(md_lines[i + 1]) # 0

\* ParseSetext advancing by one line only, leaving the underline to be parsed
ParseSetext_keep ==
    /\ pc = "parse"
    /\ i <= Len(md_lines)
    /\ Strip(md_lines[i]) # <<>>
    /\ parse_atx_heading(candidate_heading(md_lines[i])) = <<>>
    /\ SetextHere
    /\ blocks' = Append(FlushIfBlocks[1],
                        Block("heading", is_setext_underline(md_lines[i + 1]),
                              Strip(md_lines[i])))
    /\ md_hist' = [FlushIfBlocks[2] EXCEPT
                     !.from = Append(@, [at |-> i, how |-> "setext", n |-> 2])]
    /\ pending_paragraph_lines' = FlushIfBlocks[3]
    /\ i' = i + 1
    /\ UNCHANGED <<pc, markdown_text, paragraph_mode, md_lines, outline_lines,
                   current_heading_level, blk, outline>>
    /\ UNCHANGED <<cj_vars, ext_vars>>

\* ParseSetext that neither appends the heading nor moves the index
ParseSetext_stuck ==
    /\ pc = "parse"
    /\ i <= Len(md_lines)
    /\ Strip(md_lines[i]) # <<>>
    /\ parse_atx_heading(candidate_heading(md_lines[i])) = <<>>
    /\ SetextHere
    /\ UNCHANGED <<pc, cj_vars, md_vars, ext_vars>>

\* loop body: "if setext_level"
ParseSetext ==
    /\ pc = "parse"
    /\ i <= Len(md_lines)
    /\ Strip(md_lines[i]) # <<>>
    /\ parse_atx_heading(candidate_heading(md_lines[i])) = <<>>
    /\ SetextHere
    /\ blocks' = Append(FlushIfBlocks[1],
                        Block("heading", is_setext_underline(md_lines[i + 1]),
                              Strip(md_lines[i])))
    /\ md_hist' = [FlushIfBlocks[2] EXCEPT
                     !.from = Append(@, [at |-> i, how |-> "setext", n |-> 2])]
    /\ pending_paragraph_lines' = FlushIfBlocks[3]
    /\ i' = i + 2
    /\ UNCHANGED <<pc, markdown_text, paragraph_mode, md_lines, outline_lines,
                   current_heading_level, blk, outline>>
    /\ UNCHANGED <<cj_vars, ext_vars>>

\* loop body: paragraph line in "lines" mode
ParseLine ==
    /\ pc = "parse"
    /\ i <= Len(md_lines)
    /\ Strip(md_lines[i]) # <<>>
    /\ parse_atx_heading(candidate_heading(md_lines[i])) = <<>>
    /\ ~SetextHere
    /\ paragraph_mode = "lines"
    /\ blocks' = Append(blocks, Block("paragraph", 0, Strip(md_lines[i])))
    /\ md_hist' = Made(md_hist, "line", 1)
    /\ i' = i + 1
    /\ UNCHANGED <<pc, markdown_text, paragraph_mode, md_lines,
                   pending_paragraph_lines, outline_lines,
                   current_heading_level, blk, outline>>
    /\ UNCHANGED <<cj_vars, ext_vars>>

\* loop body: paragraph line in "blocks" mode
ParsePending ==
    /\ pc = "parse"
    /\ i <= Len(md_lines)
    /\ Strip(md_lines[i]) # <<>>
    /\ parse_atx_heading(candidate_heading(md_lines[i])) = <<>>
    /\ ~SetextHere
    /\ paragraph_mode # "lines"
    /\ pending_paragraph_lines' = Append(pending_paragraph_lines, md_lines[i])
    /\ md_hist' = [md_hist EXCEPT !.pending_at = Append(@, i)]
    /\ i' = i + 1
    /\ UNCHANGED <<pc, markdown_text, paragraph_mode, md_lines, blocks,
                   outline_lines, current_heading_level, blk, outline>>
    /\ UNCHANGED <<cj_vars, ext_vars>>

\* after the loop: flush_paragraph(); return blocks; then the caller's
\* outline_lines = []; current_heading_level = 0
ParseEnd ==
    /\ pc = "parse"
    /\ i > Len(md_lines)
    /\ blocks' = flush_paragraph(blocks, pending_paragraph_lines)
    /\ md_hist' = Flushed(md_hist, blocks, pending_paragraph_lines)
    /\ pending_paragraph_lines' = <<>>
    /\ outline_lines' = <<>>
    /\ current_heading_level' = 0
    /\ blk' = 1
    /\ pc' = "convert"
    /\ UNCHANGED <<markdown_text, paragraph_mode, md_lines, i, outline>>
    /\ UNCHANGED <<cj_vars, ext_vars>>

\* ------------------------------------------ convert_to_logseq_outline steps
\* loop body: kind == "heading" and level is not None
ConvertHeading ==
    /\ pc = "convert"
    /\ blk <= Len(blocks)
    /\ blocks[blk].kind = "heading" /\ blocks[blk].level # 0
    /\ outline_lines' =
           Append(outline_lines, heading_entry(blocks[blk].level, blocks[blk].text))
    /\ current_heading_level' = blocks[blk].level
    /\ blk' = blk + 1
    /\ UNCHANGED <<pc, markdown_text, paragraph_mode, md_lines, i, blocks,
                   pending_paragraph_lines, outline, md_hist>>
    /\ UNCHANGED <<cj_vars, ext_vars>>

\* loop body: kind == "paragraph", the candidate is a property line
ConvertProperty ==
    /\ pc = "convert"
    /\ blk <= Len(blocks)
    /\ ~(blocks[blk].kind = "heading" /\ blocks[blk].level # 0)
    /\ blocks[blk].kind = "paragraph"
    /\ is_property(candidate(blocks[blk].text))
    /\ outline_lines' =
           Append(outline_lines,
                  make_indent(base_indent_level(current_heading_level), 2)
                  \o candidate(blocks[blk].text))
    /\ blk' = blk + 1
    /\ UNCHANGED <<pc, markdown_text, paragraph_mode, md_lines, i, blocks,
                   pending_paragraph_lines, current_heading_level, outline,
                   md_hist>>
    /\ UNCHANGED <<cj_vars, ext_vars>>

\* loop body: kind == "paragraph", any other content
ConvertParagraph ==
    /\ pc = "convert"
    /\ blk <= Len(blocks)
    /\ ~(blocks[blk].kind = "heading" /\ blocks[blk].level # 0)
    /\ blocks[blk].kind = "paragraph"
    /\ ~is_property(candidate(blocks[blk].text))
    /\ outline_lines' =
           Append(outline_lines,
                  make_indent(base_indent_level(current_heading_level), 2)
                  \o <<"-", " ">> \o candidate(blocks[blk].text))
    /\ blk' = blk + 1
    /\ UNCHANGED <<pc, markdown_text, paragraph_mode, md_lines, i, blocks,
                   pending_paragraph_lines, current_heading_level, outline,
                   md_hist>>
    /\ UNCHANGED <<cj_vars, ext_vars>>

\* ConvertEnd adding the final line break unconditionally
ConvertEnd_always ==
    /\ pc = "convert"
    /\ blk > Len(blocks)
    /\ outline' = JoinLines(outline_lines) \o <<NL>>
    /\ pc' = "md_done"
    /\ UNCHANGED <<markdown_text, paragraph_mode, md_lines, i, blocks,
                   pending_paragraph_lines, outline_lines,
                   current_heading_level, blk, md_hist>>
    /\ UNCHANGED <<cj_vars, ext_vars>>

\* return "\n".join(outline_lines) + ("\n" if outline_lines else "")
ConvertEnd ==
    /\ pc = "convert"
    /\ blk > Len(blocks)
    /\ outline' = JoinLines(outline_lines)
                  \o (IF outline_lines # <<>> THEN <<NL>> ELSE <<>>)
    /\ pc' = "md_done"
    /\ UNCHANGED <<markdown_text, paragraph_mode, md_lines, i, blocks,
                   pending_paragraph_lines, outline_lines,
                   current_heading_level, blk, md_hist>>
    /\ UNCHANGED <<cj_vars, ext_vars>>

NextConv ==
    \/ MdStart
    \/ ParseBlank
    \/ ParseAtx
    \/ ParseSetext
    \/ ParseLine
    \/ ParsePending
    \/ ParseEnd
    \/ ConvertHeading
    \/ ConvertProperty
    \/ ConvertParagraph
    \/ ConvertEnd

SpecConv == InitConv /\ [][NextConv]_vars

\* ------------------------------------------- reading the input and output
Range(s) == { s[k] : k \in DOMAIN s }
Count(s, v) == Cardinality({ k \in DOMAIN s : s[k] = v })
Increasing(s) == \A j, k \in DOMAIN s : j < k => s[j] < s[k]

RECURSIVE IsSubseq(_, _)
\* a is b with some entries left out
IsSubseq(a, b) ==
    IF a = <<>> THEN TRUE
    ELSE IF b = <<>> THEN FALSE
    ELSE IF Head(a) = Head(b) /\ IsSubseq(Tail(a), Tail(b)) THEN TRUE
    ELSE IsSubseq(a, Tail(b))

Positions == 1..Len(lines)
IndentAt(p) == get_indentation_level(lines[p])
HeadingAt(p) == is_section_heading(lines[p])
BlankAt(p) == Strip(lines[p]) = <<>>

\* where the section of the heading at h ends in the input: the next heading,
\* the next non-heading line at indent <= the heading's, or the end of input
SectionEnd(h) ==
    LET closers == { e \in (h + 1)..Len(lines) :
                        HeadingAt(e) \/ IndentAt(e) <= IndentAt(h) }
    IN IF closers = {} THEN Len(lines) + 1
       ELSE CHOOSE e \in closers : \A f \in closers : e <= f

\* the section of the heading at h has a non-blank, non-heading deeper line
NestedContentAt(h) ==
    \E p \in (h + 1)..(SectionEnd(h) - 1) :
        ~BlankAt(p) /\ ~HeadingAt(p) /\ IndentAt(p) > IndentAt(h)

\* the history names, line for line, what cleaned_lines holds
OriginOK ==
    /\ Len(hist.origin) = Len(cleaned_lines)
    /\ \A k \in DOMAIN cleaned_lines :
          /\ hist.origin[k] \in Positions
          /\ cleaned_lines[k] = lines[hist.origin[k]]

\* ---------------------------------------------------------------- claims
\* C1: clean_journal_content(clean_journal_content(x)) = clean_journal_content(x)
\* for every input text x.
C1_Idempotent == (pc = "done" /\ run = 2) => result = first

\* a second call returned, on a first result that had lost lines and kept some
C1_Witness ==
    /\ pc = "done" /\ run = 2
    /\ first # input /\ first # <<>>
    /\ \E k \in DOMAIN hist.processed : hist.processed[k].kept

\* C2: a heading whose section completes without a non-blank, non-heading line
\* deeper than the heading is not in the output, nor is any line of its section.
C2_EmptySectionRemoved ==
    pc = "done" =>
        /\ OriginOK
        /\ \A h \in Positions :
              (HeadingAt(h) /\ ~NestedContentAt(h)) =>
                  \A p \in h..(SectionEnd(h) - 1) : p \notin Range(hist.origin)

\* an empty section that owned a whitespace-only line was dropped, other lines kept
C2_Witness ==
    /\ pc = "done" /\ run = 1
    /\ cleaned_lines # <<>>
    /\ \E h \in Positions :
          /\ HeadingAt(h) /\ ~NestedContentAt(h)
          /\ SectionEnd(h) > h + 1

\* C3: a completed section with nested content is emitted as its heading line
\* followed by every content line, in order and unchanged.
C3_NonEmptySectionRetained ==
    pc = "done" =>
        /\ OriginOK
        /\ \A h \in Positions :
              (HeadingAt(h) /\ NestedContentAt(h)) =>
                  \E k \in DOMAIN cleaned_lines :
                      \A j \in 0..(SectionEnd(h) - 1 - h) :
                          /\ k + j \in DOMAIN cleaned_lines
                          /\ hist.origin[k + j] = h + j
                          /\ cleaned_lines[k + j] = lines[h + j]

\* a section with a blank and a non-blank content line was kept
C3_Witness ==
    /\ pc = "done" /\ run = 1
    /\ \E h \in Positions :
          /\ HeadingAt(h) /\ NestedContentAt(h)
          /\ SectionEnd(h) > h + 2
          /\ \E p \in (h + 1)..(SectionEnd(h) - 1) : BlankAt(p)

\* C4: while a section is open, a heading line indented deeper than the open
\* section's indent_level is appended to that section's content and neither
\* closes the open section nor starts a new one.
C4_DeeperHeadingJoinsSection ==
    [][(/\ pc = "loop"
        /\ pos <= Len(lines)
        /\ current_section # None
        /\ is_section_heading(lines[pos])
        /\ get_indentation_level(lines[pos]) > current_section[1].indent_level)
       => current_section' =
              <<[current_section[1] EXCEPT
                   !.content = Append(@, <<lines[pos],
                                           get_indentation_level(lines[pos])>>)]>>
      ]_vars

\* C5: heading A, then a deeper heading B, then a non-blank non-heading line
\* deeper than B: A's heading line is in the output.
C5_ParentOfSubheadingRetained ==
    (pc = "done" /\ run = 1) =>
        \A a \in Positions :
            (/\ a + 2 \in Positions
             /\ HeadingAt(a) /\ HeadingAt(a + 1)
             /\ IndentAt(a + 1) > IndentAt(a)
             /\ ~HeadingAt(a + 2) /\ ~BlankAt(a + 2)
             /\ IndentAt(a + 2) > IndentAt(a + 1))
            => (OriginOK /\ a \in Range(hist.origin))

\* how often the builder took line p as a heading, a content entry, a passthrough
TimesHandled(p) ==
    LET done == hist.processed
    IN Cardinality({ k \in DOMAIN done : done[k].at = p })
       + Count(hist.open_at, p)
       + Cardinality({ <<k, j>> \in (DOMAIN done) \X Positions :
                          j \in DOMAIN done[k].content_at
                          /\ done[k].content_at[j] = p })
       + Count(hist.open_content_at, p)
       + Count(hist.passed, p)

\* C6: every input line is handled exactly once, as the heading of one section,
\* a content entry of one section or one passthrough line, and a line is absent
\* from the output only as the heading or content of a dropped section.
C6_StructuralCompleteness ==
    /\ pc = "loop" =>
          \A p \in Positions : TimesHandled(p) = (IF p < pos THEN 1 ELSE 0)
    /\ pc = "done" =>
          /\ OriginOK
          /\ \A p \in Positions :
                /\ TimesHandled(p) = 1
                /\ p \notin Range(hist.origin) =>
                      \E k \in DOMAIN hist.processed :
                          /\ ~hist.processed[k].kept
                          /\ \/ hist.processed[k].at = p
                             \/ p \in Range(hist.processed[k].content_at)

\* a run ended with a passthrough line emitted and a section dropped together
\* with the content line it owned
C6_Witness ==
    /\ pc = "done" /\ run = 1
    /\ hist.passed # <<>>
    /\ \E k \in DOMAIN hist.processed :
          ~hist.processed[k].kept /\ hist.processed[k].content_at # <<>>

\* C7: the output lines are a subsequence of the input lines (same order, same
\* text, none duplicated or invented), and a section's content list holds its
\* lines in input order with their original indent values.
C7_OrderPreserved ==
    pc \in {"loop", "done"} =>
        /\ IsSubseq(cleaned_lines, lines)
        /\ OriginOK
        /\ Increasing(hist.origin)
        /\ (pc = "loop" /\ current_section # None) =>
              LET c == current_section[1].content
                  at == hist.open_content_at
              IN /\ Len(c) = Len(at)
                 /\ Increasing(at)
                 /\ \A j \in DOMAIN c :
                       c[j] = <<lines[at[j]], get_indentation_level(lines[at[j]])>>

\* the first input line was dropped and the last section, with content, kept
C7_Witness ==
    /\ pc = "done" /\ run = 1
    /\ Len(cleaned_lines) >= 2
    /\ hist.origin[1] > 1
    /\ current_section # None
    /\ current_section[1].content # <<>>

\* the stripped text, without its "- " when it starts with "- ##"
BulletStripped(line) ==
    LET t == Strip(line)
    IN IF Len(t) >= 2 /\ t[1] = "-" /\ t[2] = " " /\ HashRun(DropPrefix(t, 2)) >= 2
       THEN DropPrefix(t, 2)
       ELSE t

\* the builder opened a section at line p
TakenAsHeading(p) ==
    \/ p \in Range(hist.open_at)
    \/ \E k \in DOMAIN hist.processed : hist.processed[k].at = p

\* C8 as stated: a line is a heading iff its stripped text, after removing a
\* leading "- " when it starts with "- ##", starts with one to six '#' characters.
C8_AsStated ==
    pc \in {"loop", "done"} =>
        \A p \in Positions :
            is_section_heading(lines[p]) <=> HashRun(BulletStripped(lines[p])) \in 1..6

\* C8 amended: a line is a heading iff its stripped text, after removing a
\* leading "- " when it starts with "- ##", starts with "##" (two or more '#');
\* the builder opens a section at exactly these lines.
C8_HeadingDetection ==
    /\ pc \in {"loop", "done"} =>
          \A p \in Positions :
              is_section_heading(lines[p]) <=> HashRun(BulletStripped(lines[p])) >= 2
    /\ pc = "done" =>
          \A p \in Positions :
              TakenAsHeading(p) <=> HashRun(BulletStripped(lines[p])) >= 2

\* a line starting with a single '#' went through as a passthrough line right
\* after a "##" line had opened a section
C8_Witness ==
    /\ pc = "done" /\ run = 1
    /\ \E p \in Positions :
          /\ HashRun(Strip(lines[p])) = 1
          /\ p \in Range(hist.passed)
          /\ p > 1 /\ TakenAsHeading(p - 1)

RECURSIVE SpaceRun(_)
\* the number of spaces s starts with
SpaceRun(s) == IF s # <<>> /\ Head(s) = " " THEN 1 + SpaceRun(Tail(s)) ELSE 0

\* the level of the last heading among blocks[1..m], 0 when there is none
LastHeadingLevel(m) ==
    LET hs == { k \in 1..m : blocks[k].kind = "heading" }
    IN IF hs = {} THEN 0
       ELSE blocks[CHOOSE k \in hs : \A j \in hs : j <= k].level

\* the blocks parse_markdown_blocks made from headings of the input
HeadingOrigins == {"atx", "bullet_atx", "setext"}

\* C9: every heading of level n (1..6), ATX, bullet-prefixed ATX or setext,
\* becomes exactly one output line: 2*max(0, n-1) spaces, the bullet marker "- ",
\* n '#' characters, a space and the heading text; it sets current_heading_level
\* to n.
C9_HeadingRendering ==
    pc \in {"convert", "md_done"} =>
        /\ Len(outline_lines) = blk - 1
        /\ Len(md_hist.from) = Len(blocks)
        /\ current_heading_level = LastHeadingLevel(blk - 1)
        /\ \A k \in 1..(blk - 1) :
              /\ NL \notin Range(outline_lines[k])
              /\ (md_hist.from[k].how \in HeadingOrigins) <=> (blocks[k].kind = "heading")
              /\ blocks[k].kind = "heading" =>
                    LET n == blocks[k].level
                    IN /\ n \in 1..6
                       /\ outline_lines[k] =
                              Spaces(2 * (IF n - 1 > 0 THEN n - 1 ELSE 0))
                              \o <<"-", " ">> \o [j \in 1..n |-> "#"]
                              \o <<" ">> \o blocks[k].text

\* a bullet-prefixed ATX heading and a setext heading were both rendered
C9_Witness ==
    /\ pc = "md_done"
    /\ \E j, k \in DOMAIN blocks :
          /\ md_hist.from[j].how = "bullet_atx" /\ blocks[j].level = 3
          /\ md_hist.from[k].how = "setext" /\ blocks[k].level = 2
          /\ SpaceRun(outline_lines[j]) = 4
          /\ SpaceRun(outline_lines[k]) = 2

\* C10: each paragraph entry is rendered at the indent of the level of the most
\* recently seen heading (one level deeper than that heading's entry), at indent
\* 0 when no heading has been seen; a later shallower heading lowers it.
C10_ParagraphPlacement ==
    pc \in {"convert", "md_done"} =>
        \A k \in 1..(blk - 1) :
            blocks[k].kind = "paragraph" =>
                SpaceRun(outline_lines[k]) = 2 * LastHeadingLevel(k - 1)

\* a paragraph after a level-2 heading that followed a deeper heading sits at
\* indent 2, and a paragraph before any heading at indent 0
C10_Witness ==
    /\ pc = "md_done"
    /\ Len(blocks) = 3
    /\ blocks[1].kind = "heading" /\ blocks[1].level > 2
    /\ blocks[2].kind = "heading" /\ blocks[2].level = 2
    /\ blocks[3].kind = "paragraph"
    /\ SpaceRun(outline_lines[3]) = 4

\* the first position of a ':' in s, 0 when there is none
FirstColon(s) ==
    LET cs == { k \in DOMAIN s : s[k] = ":" }
    IN IF cs = {} THEN 0 ELSE CHOOSE k \in cs : \A j \in cs : k <= j

\* s has the form key:: value: a key of letters, digits, '_', '-' and spaces that
\* starts with a letter, digit, '_' or '-', directly followed by "::"
PropertyForm(s) ==
    LET c == FirstColon(s)
    IN /\ c >= 2
       /\ c + 1 <= Len(s) /\ s[c + 1] = ":"
       /\ s[1] \in {"x", "y", "k", "v", "_", "-"}
       /\ \A j \in 2..(c - 1) : s[j] \in {"x", "y", "k", "v", "_", "-", " "}

\* a paragraph's text without the bullet marker it may already carry
Unbulleted(text) ==
    IF Len(text) >= 2 /\ text[1] = "-" /\ text[2] = " "
    THEN LStrip(SubSeq(text, 3, Len(text)))
    ELSE text

\* C11: a paragraph line of the form key:: value (after its own bullet marker,
\* if any, is removed) is rendered at the current heading's child indent with no
\* bullet prefix; every other paragraph line is rendered at that indent with the
\* prefix "- ".
C11_PropertyLines ==
    pc \in {"convert", "md_done"} =>
        \A k \in 1..(blk - 1) :
            blocks[k].kind = "paragraph" =>
                LET t == Unbulleted(blocks[k].text)
                    ind == Spaces(2 * LastHeadingLevel(k - 1))
                IN outline_lines[k] =
                       IF PropertyForm(t) THEN ind \o t ELSE ind \o <<"-", " ">> \o t

\* under a level-2 heading, a property line without bullet and a plain line with
\* one, both at indent 4
C11_Witness ==
    /\ pc = "md_done"
    /\ Len(blocks) = 3
    /\ blocks[1].kind = "heading" /\ blocks[1].level = 2
    /\ outline_lines[2] = Spaces(4) \o <<"k", ":", ":", " ", "v">>
    /\ outline_lines[3] = Spaces(4) \o <<"-", " ", "x">>

\* C13: the output of convert_to_logseq_outline is the empty string when no
\* outline entry was produced, and otherwise ends with exactly one line break.
C13_TrailingNewline ==
    pc = "md_done" =>
        /\ Len(outline_lines) = Len(blocks)
        /\ IF blocks = <<>>
           THEN outline = <<>>
           ELSE /\ Len(outline) >= 2
                /\ outline[Len(outline)] = NL
                /\ outline[Len(outline) - 1] # NL

\* entries were produced from a text that itself ended with a line break
C13_Witness ==
    /\ pc = "md_done"
    /\ Len(outline_lines) >= 2
    /\ markdown_text[Len(markdown_text)] = NL
    /\ outline[Len(outline)] = NL

\* the input line at p is non-blank and the line after it is a setext underline
UnderlinedAt(p) ==
    /\ p + 1 <= Len(md_lines)
    /\ Strip(md_lines[p]) # <<>>
    /\ is_setext_underline(md_lines[p + 1]) # 0

\* the line at p was consumed as the underline of the line before it
ConsumedAt(p) ==
    \E k \in DOMAIN md_hist.from :
        md_hist.from[k].how = "setext" /\ md_hist.from[k].at = p - 1

\* the line at p became one setext heading block with the underline's level and
\* the line's text, the underline at p + 1 made no block, the line at p + 2 is
\* blank or starts a block of its own
SetextBlockAt(p) ==
    LET from == md_hist.from
    IN /\ Cardinality({ k \in DOMAIN from : from[k].at = p }) = 1
       /\ \E k \in DOMAIN from :
             /\ from[k].at = p /\ from[k].how = "setext"
             /\ blocks[k] = Block("heading", is_setext_underline(md_lines[p + 1]),
                                  Strip(md_lines[p]))
       /\ \A k \in DOMAIN from :
             from[k].at # p =>
                 ~(from[k].at <= p + 1 /\ p + 1 <= from[k].at + from[k].n - 1)
       /\ p + 2 <= Len(md_lines) =>
             \/ Strip(md_lines[p + 2]) = <<>>
             \/ \E k \in DOMAIN from : from[k].at = p + 2

\* C14 as stated: every non-blank line immediately followed by a line of '=' only
\* or '-' only becomes one heading block of that level with the line's text, and
\* the underline is consumed.
C14_AsStated ==
    pc = "md_done" =>
        \A p \in DOMAIN md_lines : UnderlinedAt(p) => SetextBlockAt(p)

\* C14 amended: the same, for a line that is not itself an ATX heading (plain or
\* bullet-prefixed) and was not itself consumed as the underline of the line
\* before it.
C14_SetextConversion ==
    pc = "md_done" =>
        /\ Len(md_hist.from) = Len(blocks)
        /\ \A p \in DOMAIN md_lines :
              (/\ UnderlinedAt(p)
               /\ parse_atx_heading(candidate_heading(md_lines[p])) = <<>>
               /\ ~ConsumedAt(p))
              => SetextBlockAt(p)

\* "x", "=", "x" in lines mode gave "- # x" and "  - x"
C14_Witness ==
    /\ pc = "md_done"
    /\ paragraph_mode = "lines"
    /\ md_lines = << <<"x">>, <<"=">>, <<"x">> >>
    /\ outline_lines = << <<"-", " ", "#", " ", "x">>,
                          <<" ", " ", "-", " ", "x">> >>

\* the input line at p is an ATX heading, plain or bullet-prefixed
AtxAt(p) == parse_atx_heading(candidate_heading(md_lines[p])) # <<>>

RECURSIVE SetextStartAt(_)
\* the input line at p is the text line of a setext heading
SetextStartAt(p) ==
    /\ UnderlinedAt(p)
    /\ ~AtxAt(p)
    /\ ~(p > 1 /\ SetextStartAt(p - 1))

\* the input line at p is non-blank and no part of a heading
ParagraphLineAt(p) ==
    /\ p \in DOMAIN md_lines
    /\ Strip(md_lines[p]) # <<>>
    /\ ~AtxAt(p)
    /\ ~SetextStartAt(p)
    /\ ~(p > 1 /\ SetextStartAt(p - 1))

\* the lines p .. p+k-1 are k >= 2 consecutive paragraph lines, none before or after
ParagraphRun(p, k) ==
    /\ k >= 2
    /\ \A j \in p..(p + k - 1) : ParagraphLineAt(j)
    /\ ~ParagraphLineAt(p - 1)
    /\ ~ParagraphLineAt(p + k)

\* the blocks made from input lines p .. p+k-1
BlocksFrom(p, k) ==
    { e \in DOMAIN md_hist.from :
        \E j \in p..(p + k - 1) :
            md_hist.from[e].at <= j /\ j <= md_hist.from[e].at + md_hist.from[e].n - 1 }

\* C12: k >= 2 consecutive non-blank, non-heading lines give k paragraph blocks,
\* one per line in order, in "lines" mode, and exactly one paragraph block whose
\* text is the trimmed lines joined by single spaces in "blocks" mode.
C12_ParagraphModes ==
    pc = "md_done" =>
        \A p \in DOMAIN md_lines : \A k \in 2..Len(md_lines) :
            ParagraphRun(p, k) =>
                IF paragraph_mode = "lines"
                THEN \E e \in DOMAIN blocks :
                        /\ BlocksFrom(p, k) = e..(e + k - 1)
                        /\ \A j \in 0..(k - 1) :
                              /\ md_hist.from[e + j].at = p + j
                              /\ blocks[e + j] =
                                     Block("paragraph", 0, Strip(md_lines[p + j]))
                ELSE \E e \in DOMAIN blocks :
                        /\ BlocksFrom(p, k) = {e}
                        /\ md_hist.from[e].at = p /\ md_hist.from[e].n = k
                        /\ blocks[e] =
                               Block("paragraph", 0,
                                     JoinWords([j \in 1..k |->
                                                   Strip(md_lines[p + j - 1])]))

\* "x", " y " in blocks mode gave the single paragraph "x y"
C12_Witness ==
    /\ pc = "md_done"
    /\ paragraph_mode = "blocks"
    /\ md_lines = << <<"x">>, <<" ", "y", " ">> >>
    /\ blocks = << Block("paragraph", 0, <<"x", " ", "y">>) >>
    /\ outline_lines = << <<"-", " ", "x", " ", "y">> >>

\* ------------------------------------------------- clean_journal_files
\* contents of the journal files of the batch pool
FileTexts == {
    <<>>,
    <<"x">>,
    <<"#", "#">>,
    JoinLines(<< <<"#", "#">>, <<" ", "x">> >>),
    JoinLines(<< <<"#", "#">>, <<"x">> >>) }

\* a file: whether read_text succeeds, how write_text ends ("ok", "denied":
\* the file cannot be opened, "broken": it fails after the file was truncated)
FileStates ==
    { [readable |-> FALSE, write |-> "ok", text |-> <<"#", "#">>] }
    \cup { [readable |-> TRUE, write |-> w, text |-> t] :
             w \in {"ok", "denied", "broken"}, t \in FileTexts }

\* the state when clean_journal_files(journal_files) has set cleaned_count = 0
InitBatch ==
    \E n \in 0..MaxFiles : \E d \in [1..n -> FileStates] :
        /\ pc = "files"
        /\ journal_files = [k \in 1..n |-> k]
        /\ disk = d
        /\ file_at = 1
        /\ cleaned_count = 0
        /\ io = <<>>
        /\ args = <<>>
        /\ today = 0
        /\ exit_code = <<>>
        /\ shows = <<>> /\ show_at = 0 /\ runs = 0
        /\ CjIdle
        /\ MdIdle

\* read_journal_content: the text, or None when read_text raises
read_journal_content(file_path) ==
    IF disk[file_path].readable THEN <<disk[file_path].text>> ELSE None

\* history entry of the file the loop is at
Handled(op, read, cleaned) ==
    Append(io, [op |-> op, path |-> journal_files[file_at],
                read |-> read, cleaned |-> cleaned])

\* loop body: "if not content: continue"
SkipFile ==
    /\ pc = "files"
    /\ file_at <= Len(journal_files)
    /\ LET c == read_journal_content(journal_files[file_at])
       IN /\ IF c = None THEN TRUE ELSE c[1] = <<>>
          /\ io' = Handled(IF c = None THEN "read_failed" ELSE "empty", c, None)
    /\ file_at' = file_at + 1
    /\ UNCHANGED <<pc, cj_vars, md_vars, snipd_vars>>
    /\ UNCHANGED <<args, today, disk, journal_files, cleaned_count, exit_code>>

\* loop body: the call clean_journal_content(content)
CleanFile ==
    /\ pc = "files"
    /\ file_at <= Len(journal_files)
    /\ LET c == read_journal_content(journal_files[file_at])
       IN /\ c # None /\ c[1] # <<>>
          /\ input' = c[1]
          /\ content' = c[1]
    /\ run' = 1
    /\ pc' = "start"
    /\ UNCHANGED <<lines, pos, cleaned_lines, current_section, result, first, hist>>
    /\ UNCHANGED <<md_vars, run_vars, snipd_vars>>

\* KeepFile writing the unchanged content back and counting the file
KeepFile_writes ==
    /\ pc = "done"
    /\ file_at \in DOMAIN journal_files
    /\ result = content
    /\ disk' = IF disk[journal_files[file_at]].write = "ok"
               THEN [disk EXCEPT ![journal_files[file_at]].text = result]
               ELSE disk
    /\ cleaned_count' = cleaned_count + 1
    /\ io' = Handled("written", <<content>>, <<result>>)
    /\ file_at' = file_at + 1
    /\ pc' = "files"
    /\ UNCHANGED <<cj_vars, md_vars, snipd_vars>>
    /\ UNCHANGED <<args, today, journal_files, exit_code>>

\* loop body: cleaned_content == content, nothing is written
KeepFile ==
    /\ pc = "done"
    /\ file_at \in DOMAIN journal_files
    /\ result = content
    /\ io' = Handled("unchanged", <<content>>, <<result>>)
    /\ file_at' = file_at + 1
    /\ pc' = "files"
    /\ UNCHANGED <<cj_vars, md_vars, snipd_vars>>
    /\ UNCHANGED <<args, today, disk, journal_files, cleaned_count, exit_code>>

\* loop body: write_text(cleaned_content) succeeds, cleaned_count += 1
WriteFile ==
    /\ pc = "done"
    /\ file_at \in DOMAIN journal_files
    /\ result # content
    /\ disk[journal_files[file_at]].write = "ok"
    /\ disk' = [disk EXCEPT ![journal_files[file_at]].text = result]
    /\ cleaned_count' = cleaned_count + 1
    /\ io' = Handled("written", <<content>>, <<result>>)
    /\ file_at' = file_at + 1
    /\ pc' = "files"
    /\ UNCHANGED <<cj_vars, md_vars, snipd_vars>>
    /\ UNCHANGED <<args, today, journal_files, exit_code>>

\* WriteFailed leaving the loop at the failed write
WriteFailed_abort ==
    /\ pc = "done"
    /\ file_at \in DOMAIN journal_files
    /\ result # content
    /\ disk[journal_files[file_at]].write # "ok"
    /\ disk' = IF disk[journal_files[file_at]].write = "broken"
               THEN [disk EXCEPT ![journal_files[file_at]].text = <<>>]
               ELSE disk
    /\ io' = Handled("write_failed", <<content>>, <<result>>)
    /\ pc' = "returned"
    /\ UNCHANGED <<cj_vars, md_vars, snipd_vars>>
    /\ UNCHANGED <<args, today, journal_files, file_at, cleaned_count, exit_code>>

\* loop body: write_text raises, the exception is caught and reported
WriteFailed ==
    /\ pc = "done"
    /\ file_at \in DOMAIN journal_files
    /\ result # content
    /\ disk[journal_files[file_at]].write # "ok"
    /\ disk' = IF disk[journal_files[file_at]].write = "broken"
               THEN [disk EXCEPT ![journal_files[file_at]].text = <<>>]
               ELSE disk
    /\ io' = Handled("write_failed", <<content>>, <<result>>)
    /\ file_at' = file_at + 1
    /\ pc' = "files"
    /\ UNCHANGED <<cj_vars, md_vars, snipd_vars>>
    /\ UNCHANGED <<args, today, journal_files, cleaned_count, exit_code>>

\* after the loop: return cleaned_count
ReturnCount ==
    /\ pc = "files"
    /\ file_at > Len(journal_files)
    /\ pc' = "returned"
    /\ UNCHANGED <<cj_vars, md_vars, run_vars, snipd_vars>>

NextBatch ==
    \/ SkipFile
    \/ CleanFile
    \/ Start
    \/ HeadingLine
    \/ ShallowLine
    \/ DeeperLine
    \/ PassthroughLine
    \/ Finish
    \/ KeepFile
    \/ WriteFile
    \/ WriteFailed
    \/ ReturnCount

SpecBatch == InitBatch /\ [][NextBatch]_vars

\* the files of the list whose changed content was written successfully
WrittenFiles ==
    { k \in DOMAIN io :
        /\ io[k].read # None /\ io[k].read[1] # <<>>
        /\ io[k].cleaned # io[k].read
        /\ disk[io[k].path].write = "ok"
        /\ disk[io[k].path].text = io[k].cleaned[1] }

\* C16: whatever reads and writes fail, clean_journal_files handles every file of
\* the list, in order, cleaning each readable non-empty one, and returns the
\* number of files whose changed content was written successfully.
C16_BatchFaultIsolation ==
    pc = "returned" =>
        /\ Len(io) = Len(journal_files)
        /\ \A k \in DOMAIN io :
              /\ io[k].path = journal_files[k]
              /\ io[k].op = (IF ~disk[journal_files[k]].readable THEN "read_failed"
                             ELSE IF io[k].read[1] = <<>> THEN "empty"
                             ELSE IF io[k].cleaned = io[k].read THEN "unchanged"
                             ELSE IF disk[journal_files[k]].write = "ok" THEN "written"
                             ELSE "write_failed")
        /\ cleaned_count = Cardinality(WrittenFiles)
        /\ cleaned_count = Cardinality({ k \in DOMAIN io : io[k].op = "written" })

\* a failed write, then a later file cleaned, written and counted
C16_Witness ==
    /\ pc = "returned"
    /\ Len(journal_files) = 2
    /\ io[1].op = "write_failed"
    /\ io[2].op = "written"
    /\ cleaned_count = 1

\* ------------------------------------------------------ dates and names
\* a date string "%Y-%m-%d" is the tuple <<year, month, day>> of its fields;
\* a date is its proleptic Gregorian ordinal (date.toordinal())
IsLeap(y) == (y % 4 = 0 /\ y % 100 # 0) \/ y % 400 = 0

DaysInMonth(y, m) ==
    IF m = 2 THEN (IF IsLeap(y) THEN 29 ELSE 28)
    ELSE IF m \in {4, 6, 9, 11} THEN 30 ELSE 31

RECURSIVE DaysBeforeMonth(_, _)
DaysBeforeMonth(y, m) ==
    IF m <= 1 THEN 0 ELSE DaysBeforeMonth(y, m - 1) + DaysInMonth(y, m - 1)

\* the ordinal of the date with the fields ymd
toordinal(ymd) ==
    LET y == ymd[1] - 1
    IN 365 * y + (y \div 4) - (y \div 100) + (y \div 400)
       + DaysBeforeMonth(ymd[1], ymd[2]) + ymd[3]

RECURSIVE YearOf(_, _)
YearOf(day, y) == IF toordinal(<<y + 1, 1, 1>>) > day THEN y ELSE YearOf(day, y + 1)

RECURSIVE MonthOf(_, _, _)
MonthOf(day, y, m) ==
    IF m = 12 \/ toordinal(<<y, m + 1, 1>>) > day THEN m ELSE MonthOf(day, y, m + 1)

\* date.strftime("%Y-%m-%d")
strftime(day) ==
    LET y == YearOf(day, (day \div 366) + 1)
        m == MonthOf(day, y, 1)
    IN <<y, m, day - toordinal(<<y, m, 1>>) + 1>>

\* datetime.strptime(date_str, "%Y-%m-%d") succeeds
IsDate(date_str) ==
    /\ date_str[2] \in 1..12
    /\ date_str[3] \in 1..DaysInMonth(date_str[1], date_str[2])

\* parse_date: the date of the string, or now when there is none or it is invalid
parse_date(date_str) ==
    IF date_str = None THEN today
    ELSE IF IsDate(date_str[1]) THEN toordinal(date_str[1])
    ELSE today

\* the days the journal cleaner runs on
Todays == { toordinal(<<2025, 3, 1>>) }

\* strftime of the days around the date range, tabulated once (@@ makes the
\* function an explicit table)
Calendar ==
    [day \in UNION { (t - DaysBack - 1)..(t + 1) : t \in Todays } |-> strftime(day)]
    @@ <<>>

\* date.strftime("%Y-%m-%d"), looked up in the table where it has the day
DateStr(day) == IF day \in DOMAIN Calendar THEN Calendar[day] ELSE strftime(day)

\* the four file names find_journal_file tries for a date, in order
Patterns == 1..4
JournalPath(date_str, pattern) == [date_str |-> date_str, pattern |-> pattern]

\* find_journal_file: the first existing name of the date, or None
find_journal_file(date) ==
    LET date_str == DateStr(date)
        found == { p \in Patterns : JournalPath(date_str, p) \in DOMAIN disk }
    IN IF found = {} THEN None
       ELSE <<JournalPath(date_str, CHOOSE p \in found : \A q \in found : p <= q)>>

RECURSIVE InDateOrder(_)
\* the (date_str, path) items of the dates in `found`, earliest date first
InDateOrder(found) ==
    IF found = {} THEN <<>>
    ELSE LET date == CHOOSE d \in found : \A e \in found : d <= e
         IN << <<DateStr(date), find_journal_file(date)[1]>> >>
            \o InDateOrder(found \ {date})

\* find_journal_files over the dates first_date..last_date: the items of the
\* dictionary, in insertion order (the dates are visited in increasing order)
find_journal_files(first_date, last_date) ==
    InDateOrder({ date \in first_date..last_date : find_journal_file(date) # None })

\* filter_out_today_and_future keeping today's file
filter_out_today_and_future_incl(journal_files_dict) ==
    SelectSeq(journal_files_dict, LAMBDA item : parse_date(<<item[1]>>) <= today)

\* filter_out_today_and_future: items with parse_date(date_str).date() < today
filter_out_today_and_future(journal_files_dict) ==
    SelectSeq(journal_files_dict, LAMBDA item : parse_date(<<item[1]>>) < today)

\* ------------------------------------------------- clean_journal.py main
\* names in the journal directory, around the ends of the date range
NamePool(t) ==
    { JournalPath(strftime(t - DaysBack - 1), 1),
      JournalPath(strftime(t - DaysBack), 1),
      JournalPath(strftime(t - 1), 2),
      JournalPath(strftime(t - 1), 3),
      JournalPath(strftime(t), 4),
      JournalPath(strftime(t + 1), 1) }

\* --date values: none, yesterday, a string that is no date
ArgDates(t) == { None, <<strftime(t - 1)>>, << <<2025, 2, 30>> >> }

\* files of the journal directory
JournalFileStates ==
    { [readable |-> TRUE, write |-> "ok", text |-> <<>>],
      [readable |-> TRUE, write |-> "ok", text |-> <<"#", "#">>],
      [readable |-> TRUE, write |-> "denied", text |-> <<"#", "#">>],
      [readable |-> TRUE, write |-> "ok",
       text |-> JoinLines(<< <<"#", "#">>, <<" ", "x">>, <<"x">>, <<"x">> >>)] }

InitJournal ==
    \E t \in Todays : \E d \in ArgDates(t), a \in BOOLEAN :
    \E names \in { s \in SUBSET NamePool(t) : Cardinality(s) <= MaxFiles } :
    \E files \in [names -> JournalFileStates] :
        /\ pc = "main"
        /\ args = [date |-> d, all |-> a]
        /\ today = t
        /\ disk = files
        /\ journal_files = <<>>
        /\ file_at = 0
        /\ cleaned_count = 0
        /\ exit_code = <<>>
        /\ io = <<>>
        /\ shows = <<>> /\ show_at = 0 /\ runs = 0
        /\ CjIdle
        /\ MdIdle

\* get_journal_files_to_clean, "if args.date"
GetFileOfDate ==
    /\ pc = "main"
    /\ args.date # None
    /\ journal_files' = find_journal_file(parse_date(args.date))
    /\ pc' = "selected"
    /\ UNCHANGED <<cj_vars, md_vars, snipd_vars>>
    /\ UNCHANGED <<args, today, disk, file_at, cleaned_count, exit_code, io>>

\* get_journal_files_to_clean, the date range today - 365 days .. today
GetFilesOfRange ==
    /\ pc = "main"
    /\ args.date = None
    /\ LET journal_files_dict == find_journal_files(today - DaysBack, today)
           kept == IF ~args.all
                   THEN filter_out_today_and_future(journal_files_dict)
                   ELSE journal_files_dict
       IN journal_files' = [k \in 1..Len(kept) |-> kept[k][2]]
    /\ pc' = "selected"
    /\ UNCHANGED <<cj_vars, md_vars, snipd_vars>>
    /\ UNCHANGED <<args, today, disk, file_at, cleaned_count, exit_code, io>>

\* main: "if not journal_files: print(...); return"; the process ends with 0
NoFiles ==
    /\ pc = "selected"
    /\ journal_files = <<>>
    /\ exit_code' = <<0>>
    /\ pc' = "exit"
    /\ UNCHANGED <<cj_vars, md_vars, snipd_vars>>
    /\ UNCHANGED <<args, today, disk, journal_files, file_at, cleaned_count, io>>

\* main: cleaned_count = clean_journal_files(journal_files)
CallCleanFiles ==
    /\ pc = "selected"
    /\ journal_files # <<>>
    /\ file_at' = 1
    /\ cleaned_count' = 0
    /\ pc' = "files"
    /\ UNCHANGED <<cj_vars, md_vars, snipd_vars>>
    /\ UNCHANGED <<args, today, disk, journal_files, exit_code, io>>

\* main: the report after clean_journal_files returned; the process ends with 0
Report ==
    /\ pc = "returned"
    /\ exit_code' = <<0>>
    /\ pc' = "exit"
    /\ UNCHANGED <<cj_vars, md_vars, snipd_vars>>
    /\ UNCHANGED <<args, today, disk, journal_files, file_at, cleaned_count, io>>

NextJournal ==
    \/ GetFileOfDate
    \/ GetFilesOfRange
    \/ NoFiles
    \/ CallCleanFiles
    \/ SkipFile
    \/ CleanFile
    \/ Start
    \/ HeadingLine
    \/ ShallowLine
    \/ DeeperLine
    \/ PassthroughLine
    \/ Finish
    \/ KeepFile
    \/ WriteFile
    \/ WriteFailed
    \/ ReturnCount
    \/ Report

SpecJournal == InitJournal /\ [][NextJournal]_vars

\* the date a journal file is named after
DateOfPath(path) == toordinal(path.date_str)

\* C18: without --date and without --all the selected files are files of the
\* directory dated strictly before today and at most 365 days back, so today's
\* file is never among them; with --all today's file, if there is one, is selected.
C18_TodayExclusion ==
    (pc = "selected" /\ args.date = None) =>
        /\ \A k \in DOMAIN journal_files :
              /\ journal_files[k] \in DOMAIN disk
              /\ DateOfPath(journal_files[k]) >= today - DaysBack
              /\ DateOfPath(journal_files[k]) <= today
              /\ ~args.all => DateOfPath(journal_files[k]) < today
        /\ args.all =>
              ((\E path \in DOMAIN disk : DateOfPath(path) = today)
               => \E k \in DOMAIN journal_files : DateOfPath(journal_files[k]) = today)

\* today's file exists beside an older one and only the older one is selected
C18_Witness ==
    /\ pc = "selected"
    /\ args.date = None /\ ~args.all
    /\ \E path \in DOMAIN disk : DateOfPath(path) = today
    /\ Len(journal_files) = 1
    /\ DateOfPath(journal_files[1]) = today - DaysBack

\* the requested input file of a --date run does not exist
DateFileMissing ==
    /\ args.date # None
    /\ \A path \in DOMAIN disk : DateOfPath(path) # parse_date(args.date)

\* C17: a --date run of the journal cleaner whose file does not exist ends with
\* a non-zero exit status.
C17_MissingInputFails ==
    (pc = "exit" /\ DateFileMissing) => exit_code # <<0>>

\* ------------------------------------------------ clean_perplexity_sources
\* characters of the model's alphabet in [a-zA-Z0-9_-] and in \d
NameChars == {"a", "u", "x", "y", "1", "_", "-"}
Digits == {"1"}
\* one of the invisible characters U+200B..U+200F, U+FEFF, U+2060
ZWSP == "ZWSP"

RECURSIVE RunOf(_, _, _)
\* the number of characters of `class` that s has from index p on
RunOf(s, p, class) ==
    IF p > Len(s) \/ s[p] \notin class THEN 0 ELSE 1 + RunOf(s, p + 1, class)

\* the first index >= p where s has the character c, or 0
IndexFrom(s, p, c) ==
    LET at == { k \in p..Len(s) : s[k] = c }
    IN IF at = {} THEN 0 ELSE CHOOSE k \in at : \A j \in at : k <= j

\* where a match of \[([a-zA-Z0-9_-]+(?:\+\d+)?)\]\([^)]+\) starting at p ends, or 0
SourceLinkEnd(s, p) ==
    LET n == RunOf(s, p + 1, NameChars)
        q == p + 1 + n
        d == IF q <= Len(s) /\ s[q] = "+" THEN RunOf(s, q + 1, Digits) ELSE 0
        r == IF d > 0 THEN q + 1 + d ELSE q
        c == IndexFrom(s, r + 2, ")")
    IN IF /\ s[p] = "["
          /\ n > 0
          /\ r + 1 <= Len(s) /\ s[r] = "]" /\ s[r + 1] = "("
          /\ c > r + 2
       THEN c ELSE 0

RECURSIVE RemoveSourceLinks(_, _)
\* source_link_pattern.sub("", text), scanning from index p
RemoveSourceLinks(s, p) ==
    IF p > Len(s) THEN <<>>
    ELSE IF SourceLinkEnd(s, p) > 0 THEN RemoveSourceLinks(s, SourceLinkEnd(s, p) + 1)
    ELSE <<s[p]>> \o RemoveSourceLinks(s, p + 1)

\* re.sub(r" +", " ", text)
CollapseSpaces(s) ==
    LET keep == { k \in DOMAIN s : ~(s[k] = " " /\ k > 1 /\ s[k - 1] = " ") }
        idx == [k \in DOMAIN s |-> Cardinality({ j \in keep : j <= k })]
    IN [n \in 1..Cardinality(keep) |-> s[CHOOSE k \in keep : idx[k] = n]]

RECURSIVE RStripSpaces(_)
RStripSpaces(s) ==
    IF s # <<>> /\ s[Len(s)] = " " THEN RStripSpaces(SubSeq(s, 1, Len(s) - 1)) ELSE s

\* clean_perplexity_sources: links, invisible characters, runs of spaces,
\* spaces at the ends of lines
clean_perplexity_sources(text) ==
    LET no_links == RemoveSourceLinks(text, 1)
        visible == SelectSeq(no_links, LAMBDA ch : ch # ZWSP)
        single == CollapseSpaces(visible)
        ls == SplitLines(single)
    IN JoinLines([k \in 1..Len(ls) |-> RStripSpaces(ls[k])])

\* --------------------------------------- the command lines of the two tools
\* texts of the input file and of standard input
CliTexts == {
    JoinLines(<< <<"#", " ", "x">>, <<>>, <<"x">>, <<"=">>,
                 <<"k", ":", ":", " ", "v">>, <<"y">> >>),
    <<"x", " ", "[", "a", "+", "1", "]", "(", "u", ")", " ", " ", "y", " ", NL>> }

\* the input file: missing, unreadable, read-only or writable
InputFiles ==
    { [exists |-> FALSE, readable |-> FALSE, write |-> "ok", text |-> <<>>] }
    \cup { [exists |-> TRUE, readable |-> r, write |-> w, text |-> t] :
             r \in BOOLEAN, w \in {"ok", "denied"}, t \in CliTexts }

\* the output file: not there yet, in a directory that can or cannot be written
OutputFiles ==
    { [exists |-> FALSE, readable |-> FALSE, write |-> w, text |-> <<>>] :
        w \in {"ok", "denied"} }

\* the command lines: prog INPUT? [-o OUTPUT] [-i] [--paragraph-mode M] [--preview]
CommandLines ==
    { [prog |-> "md_to_logseq_outline", input |-> inp, output |-> out,
       in_place |-> ip, paragraph_mode |-> m, preview |-> FALSE, stdin |-> t] :
        inp \in {None, <<"in.md">>}, out \in {None, <<"out.md">>},
        ip \in BOOLEAN, m \in {"lines", "blocks"}, t \in CliTexts }
    \cup
    { [prog |-> "clean_perplexity_sources", input |-> inp, output |-> out,
       in_place |-> ip, paragraph_mode |-> "lines", preview |-> pv, stdin |-> t] :
        inp \in {None, <<"in.md">>}, out \in {None, <<"out.md">>},
        ip \in BOOLEAN, pv \in BOOLEAN, t \in CliTexts }

InitCli ==
    \E a \in CommandLines, fin \in InputFiles, fout \in OutputFiles :
        /\ pc = "main"
        /\ args = a
        /\ disk = [path \in {"in.md", "out.md"} |->
                      IF path = "in.md" THEN fin ELSE fout]
        /\ today = 0
        /\ journal_files = <<>>
        /\ file_at = 0
        /\ cleaned_count = 0
        /\ exit_code = <<>>
        /\ io = <<>>
        /\ shows = <<>> /\ show_at = 0 /\ runs = 0
        /\ CjIdle
        /\ MdIdle

\* open(path, "r") and read() succeed
CanRead(path) == disk[path].exists /\ disk[path].readable

\* open(path, "w") succeeds
CanWrite(path) == disk[path].write = "ok"

\* the disk after text was written to path
Written(path, text) ==
    [disk EXCEPT ![path] = [exists |-> TRUE, readable |-> TRUE,
                            write |-> "ok", text |-> text]]

\* the process ends with status `code`, after the steps `done`
Exit(code, done) ==
    /\ exit_code' = <<code>>
    /\ io' = io \o done
    /\ pc' = "exit"
    /\ UNCHANGED <<args, today, journal_files, file_at, cleaned_count>>
    /\ UNCHANGED <<cj_vars, md_vars, snipd_vars>>

\* the text the tool is given
InputText == IF args.input = None THEN args.stdin ELSE disk[args.input[1]].text

\* where the tool writes: the input file, the output file or standard output
Destination ==
    IF args.in_place THEN args.input
    ELSE IF args.output # None THEN args.output
    ELSE <<"stdout">>

\* ---------------------------------------------- md_to_logseq_outline main
\* "Read input": open or read raises OSError, return 1
MdReadFailed ==
    /\ pc = "main"
    /\ args.prog = "md_to_logseq_outline"
    /\ args.input # None
    /\ ~CanRead(args.input[1])
    /\ Exit(1, <<>>)
    /\ UNCHANGED disk

\* "Read input", then the call convert_to_logseq_outline(input_text, paragraph_mode)
MdRead ==
    /\ pc = "main"
    /\ args.prog = "md_to_logseq_outline"
    /\ args.input # None => CanRead(args.input[1])
    /\ markdown_text' = InputText
    /\ paragraph_mode' = args.paragraph_mode
    /\ io' = io \o <<"read", "convert">>
    /\ pc' = "md_start"
    /\ UNCHANGED <<md_lines, i, blocks, pending_paragraph_lines, outline_lines,
                   current_heading_level, blk, outline, md_hist>>
    /\ UNCHANGED <<args, today, disk, journal_files, file_at, cleaned_count,
                   exit_code>>
    /\ UNCHANGED <<cj_vars, snipd_vars>>

\* "Validate conflicting options", after the conversion: return 2
MdConflict ==
    /\ pc = "md_done"
    /\ args # <<>>
    /\ args.in_place /\ args.output # None
    /\ Exit(2, <<>>)
    /\ UNCHANGED disk

\* "Write output": --in-place without an input path, return 2
MdInPlaceNoInput ==
    /\ pc = "md_done"
    /\ args # <<>>
    /\ ~(args.in_place /\ args.output # None)
    /\ args.in_place /\ args.input = None
    /\ Exit(2, <<>>)
    /\ UNCHANGED disk

\* "Write output": the file or standard output is written, return 0
MdWrite ==
    /\ pc = "md_done"
    /\ args # <<>>
    /\ ~(args.in_place /\ args.output # None)
    /\ Destination # None
    /\ Destination # <<"stdout">> => CanWrite(Destination[1])
    /\ disk' = IF Destination = <<"stdout">> THEN disk
               ELSE Written(Destination[1], outline)
    /\ Exit(0, <<"write">>)

\* "Write output": open or write raises OSError, return 1
MdWriteFailed ==
    /\ pc = "md_done"
    /\ args # <<>>
    /\ ~(args.in_place /\ args.output # None)
    /\ Destination # None
    /\ Destination # <<"stdout">>
    /\ ~CanWrite(Destination[1])
    /\ Exit(1, <<>>)
    /\ UNCHANGED disk

\* ------------------------------------------- clean_perplexity_sources main
\* "Validate conflicting options", first thing: return 2
PxConflict ==
    /\ pc = "main"
    /\ args.prog = "clean_perplexity_sources"
    /\ args.in_place /\ args.output # None
    /\ Exit(2, <<>>)
    /\ UNCHANGED disk

\* --in-place without an input path: return 2
PxInPlaceNoInput ==
    /\ pc = "main"
    /\ args.prog = "clean_perplexity_sources"
    /\ ~(args.in_place /\ args.output # None)
    /\ args.in_place /\ args.input = None
    /\ Exit(2, <<>>)
    /\ UNCHANGED disk

\* the options are fine
PxValid ==
    /\ args.prog = "clean_perplexity_sources"
    /\ ~(args.in_place /\ args.output # None)
    /\ ~(args.in_place /\ args.input = None)

\* "Read input": the path does not exist, or reading raises: return 1
PxReadFailed ==
    /\ pc = "main"
    /\ PxValid
    /\ args.input # None
    /\ ~CanRead(args.input[1])
    /\ Exit(1, <<>>)
    /\ UNCHANGED disk

\* "Read input" and "Clean the content"
PxRead ==
    /\ pc = "main"
    /\ PxValid
    /\ args.input # None => CanRead(args.input[1])
    /\ io' = io \o <<"read", "clean">>
    /\ pc' = "cleaned"
    /\ UNCHANGED <<args, today, disk, journal_files, file_at, cleaned_count,
                   exit_code>>
    /\ UNCHANGED <<cj_vars, md_vars, snipd_vars>>

\* "Preview mode": nothing is written, return 0
PxPreview ==
    /\ pc = "cleaned"
    /\ args.preview
    /\ Exit(0, <<>>)
    /\ UNCHANGED disk

\* process_file, or the stdin branch: the cleaned text is written, return 0
PxWrite ==
    /\ pc = "cleaned"
    /\ ~args.preview
    /\ Destination # <<"stdout">> => CanWrite(Destination[1])
    /\ disk' = IF Destination = <<"stdout">> THEN disk
               ELSE Written(Destination[1], clean_perplexity_sources(InputText))
    /\ Exit(0, IF args.input # None THEN <<"read", "clean", "write">>
               ELSE <<"write">>)

\* process_file returns False, or the stdin branch raises: return 1
PxWriteFailed ==
    /\ pc = "cleaned"
    /\ ~args.preview
    /\ Destination # <<"stdout">>
    /\ ~CanWrite(Destination[1])
    /\ Exit(1, IF args.input # None THEN <<"read", "clean">> ELSE <<>>)
    /\ UNCHANGED disk

NextCli ==
    \/ MdReadFailed
    \/ MdRead
    \/ MdStart
    \/ ParseBlank
    \/ ParseAtx
    \/ ParseSetext
    \/ ParseLine
    \/ ParsePending
    \/ ParseEnd
    \/ ConvertHeading
    \/ ConvertProperty
    \/ ConvertParagraph
    \/ ConvertEnd
    \/ MdConflict
    \/ MdInPlaceNoInput
    \/ MdWrite
    \/ MdWriteFailed
    \/ PxConflict
    \/ PxInPlaceNoInput
    \/ PxReadFailed
    \/ PxRead
    \/ PxPreview
    \/ PxWrite
    \/ PxWriteFailed

SpecCli == InitCli /\ [][NextCli]_vars

\* C15: with --in-place and --output together either tool ends with status 2
\* before anything was read, converted, cleaned or written, whatever the input
\* file is like.
C15_ConflictingFlagsFailFast ==
    (pc = "exit" /\ args.in_place /\ args.output # None) =>
        /\ exit_code = <<2>>
        /\ io = <<>>

\* ----------------------------------------------------- snipd_splitter texts
\* "- ## ", what an episode header line starts with
HeaderPrefix ==
    <<"-", " ", "#", "#", " ">>

\* "[["
OpenBrackets ==
    <<"[", "[">>

\* "]]"
CloseBrackets ==
    <<"]", "]">>

\* "show:: [[" of REMOVE_SHOW_METADATA_PATTERN
ShowOpen ==
    <<"s", "h", "o", "w", ":", ":", " ", "[", "[">>

\* "publish-date:: " of FIX_PUBLISH_DATE_PATTERN
PublishOpen ==
    <<"p", "u", "b", "l", "i", "s", "h", "-", "d", "a", "t", "e", ":", ":",
      " ">>

\* "type:: podcast"
TypeProperty ==
    <<"t", "y", "p", "e", ":", ":", " ", "p", "o", "d", "c", "a", "s", "t">>

\* "show:: "
ShowProperty ==
    <<"s", "h", "o", "w", ":", ":", " ">>

\* "episode-count:: "
CountProperty ==
    <<"e", "p", "i", "s", "o", "d", "e", "-", "c", "o", "u", "n", "t", ":",
      ":", " ">>

\* "last-episode-date:: "
LastDateProperty ==
    <<"l", "a", "s", "t", "-", "e", "p", "i", "s", "o", "d", "e", "-", "d",
      "a", "t", "e", ":", ":", " ">>

\* "<!-- Episodes exported from Snipd -->\n\n"
ExportedMarker ==
    <<"<", "!", "-", "-", " ", "E", "p", "i", "s", "o", "d", "e", "s", " ",
      "e", "x", "p", "o", "r", "t", "e", "d", " ", "f", "r", "o", "m", " ",
      "S", "n", "i", "p", "d", " ", "-", "-", ">", NL, NL>>

\* "<!-- New episodes added on "
AddedMarker ==
    <<"<", "!", "-", "-", " ", "N", "e", "w", " ", "e", "p", "i", "s", "o",
      "d", "e", "s", " ", "a", "d", "d", "e", "d", " ", "o", "n", " ">>

\* " -->"
CommentClose ==
    <<" ", "-", "-", ">">>

\* \s of the patterns, over the model's alphabet
WS == {" ", NL}

\* s has the text pat at index p
IsAt(s, p, pat) ==
    /\ p >= 1
    /\ p + Len(pat) - 1 <= Len(s)
    /\ SubSeq(s, p, p + Len(pat) - 1) = pat

\* the first index >= p where s has the text pat, or 0
Find(s, p, pat) ==
    LET at == { k \in p..Len(s) : IsAt(s, k, pat) }
    IN IF at = {} THEN 0 ELSE CHOOSE k \in at : \A j \in at : k <= j

\* the index after the end of the line that holds index p
LineEnd(s, p) == IF IndexFrom(s, p, NL) = 0 THEN Len(s) + 1 ELSE IndexFrom(s, p, NL)

\* p is where a line starts (^ with re.MULTILINE)
AtLineStart(s, p) == p = 1 \/ s[p - 1] = NL

\* p is where a line ends ($ with re.MULTILINE)
AtLineEnd(s, p) == p = Len(s) + 1 \/ s[p] = NL

\* the first "]]" of the line at or after index p + 1, for (.+?)\]\] read from p
CloseAfter(s, p) ==
    LET c == Find(s, p + 1, CloseBrackets)
    IN IF c > 0 /\ c + 1 < LineEnd(s, p) THEN c ELSE 0

RECURSIVE _remove_episode_title_brackets(_, _)
\* re.sub(r'^- ## \[\[(.+?)\]\]', r'- ## \1', content, flags=re.MULTILINE), from p
_remove_episode_title_brackets(s, p) ==
    IF p > Len(s) THEN <<>>
    ELSE LET inner == p + Len(HeaderPrefix) + Len(OpenBrackets)
             c == CloseAfter(s, inner)
         IN IF /\ AtLineStart(s, p)
               /\ IsAt(s, p, HeaderPrefix \o OpenBrackets)
               /\ inner <= Len(s) /\ s[inner] # NL
               /\ c > 0
            THEN HeaderPrefix \o SubSeq(s, inner, c - 1)
                 \o _remove_episode_title_brackets(s, c + 2)
            ELSE <<s[p]>> \o _remove_episode_title_brackets(s, p + 1)

\* where a match of ^\s*show:: \[\[.+?\]\]\s*$ that starts at line start p ends, or 0
ShowLineEnd(s, p) ==
    LET q == p + RunOf(s, p, WS)
        inner == q + Len(ShowOpen)
        closes == { c \in (inner + 1)..(LineEnd(s, inner) - 2) :
                      /\ IsAt(s, c, CloseBrackets)
                      /\ \E x \in (c + 2)..(c + 2 + RunOf(s, c + 2, WS)) :
                            AtLineEnd(s, x) }
    IN IF IsAt(s, q, ShowOpen) /\ inner <= Len(s) /\ s[inner] # NL /\ closes # {}
       THEN LET c == CHOOSE k \in closes : \A j \in closes : k <= j
                ends == { x \in (c + 2)..(c + 2 + RunOf(s, c + 2, WS)) :
                            AtLineEnd(s, x) }
            IN (CHOOSE x \in ends : \A y \in ends : y <= x) - 1
       ELSE 0

RECURSIVE _remove_show_level_metadata(_, _)
\* re.sub(REMOVE_SHOW_METADATA_PATTERN, '', content, flags=re.MULTILINE), from p
_remove_show_level_metadata(s, p) ==
    IF p > Len(s) THEN <<>>
    ELSE IF AtLineStart(s, p) /\ ShowLineEnd(s, p) > 0
         THEN _remove_show_level_metadata(s, ShowLineEnd(s, p) + 1)
         ELSE <<s[p]>> \o _remove_show_level_metadata(s, p + 1)

RECURSIVE _fix_publish_date_format(_, _)
\* re.sub(r'(\s*publish-date:: )\[\[(.+?)\]\]', r'\1\2', content), from p
_fix_publish_date_format(s, p) ==
    IF p > Len(s) THEN <<>>
    ELSE LET inner == p + Len(PublishOpen) + Len(OpenBrackets)
             c == CloseAfter(s, inner)
         IN IF /\ IsAt(s, p, PublishOpen \o OpenBrackets)
               /\ inner <= Len(s) /\ s[inner] # NL
               /\ c > 0
            THEN PublishOpen \o SubSeq(s, inner, c - 1)
                 \o _fix_publish_date_format(s, c + 2)
            ELSE <<s[p]>> \o _fix_publish_date_format(s, p + 1)

\* _transform_episode_to_namespace: the steps that change an episode of the
\* pool (it has no host, thumbnail, episode link, show notes, collapsed or
\* transcript line, and no run of three line breaks)
_transform_episode_to_namespace(text) ==
    _fix_publish_date_format(
        _remove_show_level_metadata(
            _remove_episode_title_brackets(text, 1), 1), 1)

\* -------------------------------------------------- snipd_splitter helpers
\* the line starts of s
LineStarts(s) == { p \in 1..Len(s) : AtLineStart(s, p) }

\* re.findall(EPISODE_TITLE_PATTERN, content, re.MULTILINE): ^- ## \[\[(.+?)\]\]
BracketedTitles(s) ==
    { SubSeq(s, p + Len(HeaderPrefix) + Len(OpenBrackets),
             CloseAfter(s, p + Len(HeaderPrefix) + Len(OpenBrackets)) - 1) :
        p \in { q \in LineStarts(s) :
                  /\ IsAt(s, q, HeaderPrefix \o OpenBrackets)
                  /\ CloseAfter(s, q + Len(HeaderPrefix) + Len(OpenBrackets)) > 0 } }

\* re.findall(EPISODE_TITLE_PLAIN_PATTERN, content, re.MULTILINE): ^- ## ([^[].+?)$
\* (the first character may be a line break, the rest is one or more others)
PlainTitles(s) ==
    { SubSeq(s, p + Len(HeaderPrefix), LineEnd(s, p + Len(HeaderPrefix) + 1) - 1) :
        p \in { q \in LineStarts(s) :
                  /\ IsAt(s, q, HeaderPrefix)
                  /\ q + Len(HeaderPrefix) + 1 <= Len(s)
                  /\ s[q + Len(HeaderPrefix)] # "["
                  /\ s[q + Len(HeaderPrefix) + 1] # NL } }

\* _get_existing_episode_titles: the stripped titles of both forms, the empty
\* set for a file that is not there
_get_existing_episode_titles(file_path) ==
    IF file_path \notin DOMAIN disk THEN {}
    ELSE { Strip(t) : t \in BracketedTitles(disk[file_path].text)
                           \cup PlainTitles(disk[file_path].text) }

\* str(n) of a count
Str(n) ==
    LET digit(d) == <<"0", "1", "2", "3", "4", "5", "6", "7", "8", "9">>[d + 1]
    IN IF n < 10 THEN <<digit(n)>> ELSE <<digit(n \div 10), digit(n % 10)>>

\* sanitize_filename: the characters <>:"/\|?* become "-", parentheses go, and
\* "-" and blanks at the ends are dropped
sanitize_filename(name) ==
    LET dashed == [k \in DOMAIN name |->
                      IF name[k] \in {"<", ">", ":", "\"", "/", "\\", "|", "?", "*"}
                      THEN "-" ELSE name[k]]
        bare == SelectSeq(dashed, LAMBDA ch : ch \notin {"(", ")"})
        inner == { k \in DOMAIN bare : bare[k] \notin {"-", " "} }
    IN IF inner = {} THEN <<>>
       ELSE SubSeq(bare, CHOOSE k \in inner : \A j \in inner : k <= j,
                         CHOOSE k \in inner : \A j \in inner : j <= k)

\* f"{sanitize_filename(show_name)}.md"
ShowFile(show_name) == sanitize_filename(show_name) \o <<".", "m", "d">>

\* ShowMetadata.to_logseq_properties
to_logseq_properties(metadata) ==
    TypeProperty \o <<NL>>
    \o ShowProperty \o metadata.show_name \o <<NL>>
    \o CountProperty \o Str(metadata.episode_count) \o <<NL>>
    \o (IF metadata.last_episode_date # None
        THEN LastDateProperty \o metadata.last_episode_date[1] \o <<NL>>
        ELSE <<>>)

RECURSIVE _prepare_episode_content(_)
\* _prepare_episode_content: the transformed episodes, each ended by a line break
_prepare_episode_content(episodes) ==
    IF episodes = <<>> THEN <<>>
    ELSE LET transformed_content == _transform_episode_to_namespace(episodes[1].content)
         IN transformed_content
            \o (IF transformed_content = <<>>
                   \/ transformed_content[Len(transformed_content)] # NL
                THEN <<NL>> ELSE <<>>)
            \o _prepare_episode_content(Tail(episodes))

\* format_current_timestamp(): "%Y-%m-%d %H:%M:%S" of the clock
Timestamps == { <<"2", "0", "2", "5", "-", "0", "1", "-", "1", "1", " ", "0", "9", ":", "0", "0", ":", "0", "0">> }

\* the names of the shows of the episodes, in the order they first appear
ShowOrder(episodes) ==
    LET firsts == { k \in DOMAIN episodes :
                      \A j \in 1..(k - 1) : episodes[j].show # episodes[k].show }
        rank == [k \in DOMAIN episodes |-> Cardinality({ j \in firsts : j <= k })]
    IN [n \in 1..Cardinality(firsts) |->
           episodes[CHOOSE k \in firsts : rank[k] = n].show]

\* max(eps, key=lambda ep: ep.publish_date or "0000-00-00").publish_date, for dates
\* of which at most one value occurs: the first episode with a date wins
LatestDate(eps) ==
    LET dated == { k \in DOMAIN eps : eps[k].publish_date # None }
    IN IF dated = {} THEN None
       ELSE eps[CHOOSE k \in dated : \A j \in dated : k <= j].publish_date

\* group_by_show: the shows in dictionary order, each with its episodes and metadata
group_by_show(episodes) ==
    LET names == ShowOrder(episodes)
    IN [n \in DOMAIN names |->
           LET eps == SelectSeq(episodes, LAMBDA ep : ep.show = names[n])
           IN [show_name |-> names[n],
               episodes |-> eps,
               metadata |-> [show_name |-> names[n],
                             episode_count |-> Len(eps),
                             last_episode_date |-> LatestDate(eps)]]]

\* ------------------------------------------------- snipd_splitter inputs
Titles == { <<"A">>, <<"A", "b">> }
ShowNames == { <<"S">>, <<"S", ":">> }
PublishDates == { None, <<<<"2", "0", "2", "5", "-", "0", "1", "-", "1", "0">>>> }

\* an episode as parse_episodes returns it: header, publish date, show
Episode(title, show, publish_date) ==
    [title |-> title,
     show |-> show,
     publish_date |-> publish_date,
     content |-> HeaderPrefix \o OpenBrackets \o title \o CloseBrackets \o <<NL>>
                 \o (IF publish_date = None THEN <<>>
                     ELSE <<" ", " ">> \o PublishOpen \o OpenBrackets
                          \o publish_date[1] \o CloseBrackets \o <<NL>>)
                 \o <<" ", " ">> \o ShowOpen \o show \o CloseBrackets \o <<NL>>]

\* the one-character title comes undated, the other one dated
EpisodePool ==
    { Episode(t, s, IF Len(t) = 1 THEN None ELSE d) :
        t \in Titles, s \in ShowNames, d \in PublishDates \ {None} }

\* a show file written before the run: properties, a blank line, older content
OldShowText ==
    TypeProperty \o <<NL>> \o ShowProperty \o <<"S", NL>>
    \o CountProperty \o <<"0", NL>>
    \o LastDateProperty \o <<"2", "0", "2", "5", "-", "0", "1", "-", "0", "1">> \o <<NL, NL>>
    \o <<"O", "L", "D", NL>>

\* the output directory before the first run
OldDirs ==
    { <<>> } \cup
    { [f \in {ShowFile(<<"S">>)} |-> [write |-> w, text |-> OldShowText]] :
        w \in {"ok", "denied"} }

InitSnipd ==
    \E n \in 1..MaxEpisodes : \E eps \in [1..n -> EpisodePool] :
    \E dir \in OldDirs, dw \in BOOLEAN :
        /\ pc = "main"
        /\ args = [episodes |-> eps, dir_writable |-> dw]
        /\ disk = dir
        /\ shows = <<>>
        /\ show_at = 0
        /\ runs = 0
        /\ today = 0
        /\ journal_files = <<>>
        /\ file_at = 0
        /\ cleaned_count = 0
        /\ exit_code = <<>>
        /\ io = <<>>
        /\ CjIdle
        /\ MdIdle

\* ------------------------------------------------ snipd_splitter steps
\* run: shows, show_metadata = group_by_show(episodes), then write_show_files
GroupByShow ==
    /\ pc = "main"
    /\ "episodes" \in DOMAIN args
    /\ shows' = group_by_show(args.episodes)
    /\ show_at' = 1
    /\ runs' = 1
    /\ pc' = "write"
    /\ UNCHANGED <<cj_vars, md_vars, run_vars>>

\* the show the loop of write_show_files is at, its file and its new episodes
ThisShow == shows[show_at]
ThisFile == ShowFile(ThisShow.show_name)
new_episodes ==
    SelectSeq(ThisShow.episodes,
              LAMBDA ep : ep.title \notin _get_existing_episode_titles(ThisFile))

\* history entry of the show the loop is at
Shown(op, after) ==
    Append(io, [op |-> op, file |-> ThisFile, run |-> runs,
                before |-> IF ThisFile \in DOMAIN disk
                           THEN <<disk[ThisFile].text>> ELSE None,
                after |-> after, added |-> new_episodes])

\* the loop goes on to the next show
NextShow ==
    /\ show_at' = show_at + 1
    /\ UNCHANGED <<pc, shows, runs, args, today, journal_files, file_at,
                   cleaned_count, exit_code>>
    /\ UNCHANGED <<cj_vars, md_vars>>

\* _create_new_show_file: properties, marker and all episodes of the show
CreateShowFile ==
    /\ pc = "write"
    /\ show_at <= Len(shows)
    /\ ThisFile \notin DOMAIN disk
    /\ args.dir_writable
    /\ LET text == to_logseq_properties(ThisShow.metadata) \o <<NL>>
                   \o ExportedMarker
                   \o _prepare_episode_content(ThisShow.episodes)
       IN /\ disk' = [f \in DOMAIN disk \cup {ThisFile} |->
                         IF f = ThisFile THEN [write |-> "ok", text |-> text]
                         ELSE disk[f]]
          /\ io' = Shown("created", <<text>>)
    /\ NextShow

\* _create_new_show_file: safe_file_write returns False
CreateFailed ==
    /\ pc = "write"
    /\ show_at <= Len(shows)
    /\ ThisFile \notin DOMAIN disk
    /\ ~args.dir_writable
    /\ io' = Shown("failed", None)
    /\ UNCHANGED disk
    /\ NextShow

\* _update_existing_show_file: "No new episodes to add"
NoNewEpisodes ==
    /\ pc = "write"
    /\ show_at <= Len(shows)
    /\ ThisFile \in DOMAIN disk
    /\ new_episodes = <<>>
    /\ io' = Shown("none", <<disk[ThisFile].text>>)
    /\ UNCHANGED disk
    /\ NextShow

\* _update_existing_show_file: safe_file_append(file_path, new_content)
UpdateShowFile ==
    /\ pc = "write"
    /\ show_at <= Len(shows)
    /\ ThisFile \in DOMAIN disk
    /\ new_episodes # <<>>
    /\ disk[ThisFile].write = "ok"
    /\ \E ts \in Timestamps :
          LET timestamp_header == <<NL>> \o AddedMarker \o ts \o CommentClose \o <<NL>>
              new_content == timestamp_header \o _prepare_episode_content(new_episodes)
              text == disk[ThisFile].text \o new_content
          IN /\ disk' = [disk EXCEPT ![ThisFile].text = text]
             /\ io' = Shown("updated", <<text>>)
    /\ NextShow

\* _update_existing_show_file: safe_file_append returns False
UpdateFailed ==
    /\ pc = "write"
    /\ show_at <= Len(shows)
    /\ ThisFile \in DOMAIN disk
    /\ new_episodes # <<>>
    /\ disk[ThisFile].write # "ok"
    /\ io' = Shown("failed", <<disk[ThisFile].text>>)
    /\ UNCHANGED disk
    /\ NextShow

\* write_show_files returns
EndRun ==
    /\ pc = "write"
    /\ show_at > Len(shows)
    /\ pc' = "written"
    /\ UNCHANGED <<cj_vars, md_vars, run_vars, snipd_vars>>

\* the next run of write_show_files, with the same shows
Rerun ==
    /\ pc = "written"
    /\ runs < MaxRuns
    /\ runs' = runs + 1
    /\ show_at' = 1
    /\ pc' = "write"
    /\ UNCHANGED shows
    /\ UNCHANGED <<cj_vars, md_vars, run_vars>>

NextSnipd ==
    \/ GroupByShow
    \/ CreateShowFile
    \/ CreateFailed
    \/ NoNewEpisodes
    \/ UpdateShowFile
    \/ UpdateFailed
    \/ EndRun
    \/ Rerun

SpecSnipd == InitSnipd /\ [][NextSnipd]_vars

\* ------------------------------------------------ show files after the runs
\* the line of s that starts at p
LineAt(s, p) == SubSeq(s, p, LineEnd(s, p) - 1)

\* the starts of the lines of s that are the header of an episode titled so
HeaderLines(s, title) ==
    { p \in LineStarts(s) : LineAt(s, p) = HeaderPrefix \o title }

\* the starts of the lines of s that are episode headers
EpisodeHeaders(s) == { p \in LineStarts(s) : IsAt(s, p, HeaderPrefix) }

\* the episodes handed to the runs that go to the show file f
EpisodesOf(f) ==
    { k \in DOMAIN args.episodes : ShowFile(args.episodes[k].show) = f }

\* no two of the parsed episodes of one show file have the same title
DistinctTitles ==
    \A j, k \in DOMAIN args.episodes :
        (j # k /\ ShowFile(args.episodes[j].show) = ShowFile(args.episodes[k].show))
            => args.episodes[j].title # args.episodes[k].title

NothingFailed == \A e \in DOMAIN io : io[e].op # "failed"

\* C19: after any number of runs of write_show_files with the same episodes
\* into the same directory, each show file has the header of each of its
\* episodes exactly once, and a run that finds the header of every episode
\* in the existing show file leaves the file as it was.
C19_NoDuplicateHeaders ==
    (pc = "written" /\ DistinctTitles /\ NothingFailed) =>
        /\ \A k \in DOMAIN args.episodes :
              Cardinality(HeaderLines(disk[ShowFile(args.episodes[k].show)].text,
                                      args.episodes[k].title)) = 1
        /\ \A e \in DOMAIN io :
              (/\ io[e].before # None
               /\ \A k \in EpisodesOf(io[e].file) :
                     HeaderLines(io[e].before[1], args.episodes[k].title) # {})
                  => io[e].after = io[e].before

\* the text of a show file after its properties block and the blank line
Body(s) ==
    IF Find(s, 1, <<NL, NL>>) = 0 THEN <<>>
    ELSE SubSeq(s, Find(s, 1, <<NL, NL>>) + 2, Len(s))

\* C20: when write_show_files adds episodes to an existing show file, the
\* properties block stays at the very top, the timestamp marker and the new
\* episodes come before all content the file had, and the episode-count and
\* last-episode-date properties are those of the file with the added episodes.
C20_UpdatePlacement ==
    \A e \in DOMAIN io :
        io[e].op = "updated" =>
            LET old == io[e].before[1]
                new == io[e].after[1]
            IN /\ IsAt(new, 1, TypeProperty)
               /\ Find(new, 1, AddedMarker) > 0
               /\ Find(new, 1, AddedMarker) < Find(new, 1, Body(old))
               /\ \E p \in LineStarts(new) :
                     LineAt(new, p) =
                         CountProperty \o Str(Cardinality(EpisodeHeaders(new)))
               /\ \A k \in DOMAIN io[e].added :
                     io[e].added[k].publish_date # None =>
                        \E p \in LineStarts(new) :
                            LineAt(new, p) =
                                LastDateProperty \o io[e].added[k].publish_date[1]

\* ------------------------------------------------ the cleaner's line loop
\* the lines the loop has consumed
Consumed == IF pc = "done" THEN Positions ELSE { p \in Positions : p < pos }

\* the consumed line at p comes after a passthrough line with no heading between
AfterPassthrough(p) ==
    \E q \in Consumed :
        /\ q < p
        /\ q \in Range(hist.passed)
        /\ \A r \in q..p : ~HeadingAt(r)

\* the step of the loop on a non-heading line that is not deeper than the
\* heading of the open section
ClosingStep ==
    /\ pc = "loop" /\ pos <= Len(lines)
    /\ ~is_section_heading(lines[pos])
    /\ current_section # None
    /\ get_indentation_level(lines[pos]) <= current_section[1].indent_level

\* C21: a non-heading line not deeper than the open section's heading has the
\* section processed first, is then emitted as a passthrough line and leaves
\* no section open; every non-heading line after it is emitted unchanged as a
\* passthrough line, whatever its indent, until the next heading line.
C21_ShallowLineCloses ==
    /\ [][ClosingStep =>
            /\ Len(hist'.processed) = Len(hist.processed) + 1
            /\ hist'.processed[Len(hist'.processed)].at = hist.open_at[1]
            /\ hist'.processed[Len(hist'.processed)].content_at = hist.open_content_at
            /\ cleaned_lines' =
                   Append(process_section(current_section[1], cleaned_lines),
                          lines[pos])
            /\ hist'.passed = Append(hist.passed, pos)
            /\ current_section' = None]_vars
    /\ [](pc \in {"loop", "done"} =>
            /\ OriginOK
            /\ \A p \in Consumed :
                  AfterPassthrough(p) =>
                      /\ p \in Range(hist.passed)
                      /\ p \in Range(hist.origin))

\* a shallow line closed a section, and a line deeper than that section's
\* heading came after it and was passed through
C21_Witness ==
    /\ pc = "done" /\ run = 1
    /\ \E k \in DOMAIN hist.processed :
          /\ hist.processed[k].by = "shallow"
          /\ \E p \in Range(hist.passed) :
                /\ p - 1 \in Range(hist.passed)
                /\ p - 1 > hist.processed[k].at
                /\ ~BlankAt(p)
                /\ IndentAt(p) > IndentAt(hist.processed[k].at)

\* how often the section of the heading at h was handed to process_section
TimesProcessed(h) ==
    Cardinality({ k \in DOMAIN hist.processed : hist.processed[k].at = h })

\* the heading at h is the last one and nothing after it closes its section
OpenAtEnd(h) ==
    /\ h \in Positions
    /\ HeadingAt(h)
    /\ SectionEnd(h) = Len(lines) + 1

\* C22: a section still open when the last line has been consumed is processed
\* exactly once before the result is returned: a final heading with nested
\* content ends the output together with its content, and no section is
\* processed twice.
C22_EndOfInputFlush ==
    pc = "done" =>
        /\ OriginOK
        /\ hist.open_at = <<>>
        /\ \A h \in Positions : TimesProcessed(h) = (IF HeadingAt(h) THEN 1 ELSE 0)
        /\ \A h \in Positions :
              OpenAtEnd(h) =>
                  /\ hist.processed[Len(hist.processed)].at = h
                  /\ hist.processed[Len(hist.processed)].by = "eof"
                  /\ NestedContentAt(h) =>
                        /\ Len(cleaned_lines) >= Len(lines) - h + 1
                        /\ \A j \in 0..(Len(lines) - h) :
                              hist.origin[Len(cleaned_lines) - j] = Len(lines) - j
        /\ result = JoinLines(cleaned_lines)

\* the input ended inside a section with nested content that came after an
\* earlier section
C22_Witness ==
    /\ pc = "done" /\ run = 1
    /\ Len(hist.processed) >= 2
    /\ \E h \in Positions :
          /\ OpenAtEnd(h)
          /\ NestedContentAt(h)
          /\ h < Len(lines)

\* ------------------------------------------------ the converter's line loop
\* the input lines the block e was made from
Covered(e) ==
    md_hist.from[e].at .. (md_hist.from[e].at + md_hist.from[e].n - 1)

\* the input lines parse_markdown_blocks has consumed
MdConsumed ==
    IF pc = "parse" THEN { p \in DOMAIN md_lines : p < i } ELSE DOMAIN md_lines

\* the paragraph block flush_paragraph makes of the pending lines
PendingBlock ==
    Block("paragraph", 0,
          JoinWords([j \in DOMAIN pending_paragraph_lines |->
                        Strip(pending_paragraph_lines[j])]))

\* the loop is at a line that flushes in blocks mode, or at the end of input
FlushPoint ==
    /\ pc = "parse"
    /\ paragraph_mode = "blocks"
    /\ \/ i > Len(md_lines)
       \/ Strip(md_lines[i]) = <<>>
       \/ AtxAt(i)
       \/ UnderlinedAt(i)

\* C23: in "blocks" mode the pending paragraph lines become one paragraph
\* block at every blank line, before every ATX or setext heading block, and at
\* end of input; the blocks are in input order, and every consumed non-blank
\* line is in exactly one block or still pending.
C23_BlocksFlushOrdering ==
    /\ [][FlushPoint =>
            /\ pending_paragraph_lines' = <<>>
            /\ IF pending_paragraph_lines = <<>>
               THEN SubSeq(blocks', 1, Len(blocks)) = blocks
               ELSE /\ Len(blocks') > Len(blocks)
                    /\ SubSeq(blocks', 1, Len(blocks) + 1) =
                           Append(blocks, PendingBlock)
                    /\ md_hist'.from[Len(blocks) + 1] =
                           [at |-> md_hist.pending_at[1], how |-> "block",
                            n |-> Len(md_hist.pending_at)]]_vars
    /\ []((paragraph_mode = "blocks" /\ pc \in {"parse", "convert", "md_done"}) =>
            /\ Len(md_hist.from) = Len(blocks)
            /\ \A e, f \in DOMAIN blocks :
                  e < f => \A p \in Covered(e), q \in Covered(f) : p < q
            /\ Len(md_hist.pending_at) = Len(pending_paragraph_lines)
            /\ \A j \in DOMAIN pending_paragraph_lines :
                  /\ md_hist.pending_at[j] = i - 1 - Len(pending_paragraph_lines) + j
                  /\ pending_paragraph_lines[j] = md_lines[md_hist.pending_at[j]]
            /\ \A e \in DOMAIN blocks : \A p \in Range(md_hist.pending_at) :
                  \A q \in Covered(e) : q < p
            /\ pc # "parse" => pending_paragraph_lines = <<>>
            /\ \A p \in MdConsumed :
                  Cardinality({ e \in DOMAIN blocks : p \in Covered(e) })
                  + Count(md_hist.pending_at, p)
                      = (IF Strip(md_lines[p]) = <<>> THEN 0 ELSE 1))

\* blocks mode: a paragraph of two lines was flushed by the heading after it
C23_Witness ==
    /\ pc = "md_done"
    /\ paragraph_mode = "blocks"
    /\ Len(blocks) = 2
    /\ md_hist.from[1] = [at |-> 1, how |-> "block", n |-> 2]
    /\ blocks[1].kind = "paragraph"
    /\ blocks[2].kind = "heading"
    /\ md_hist.from[2].at = 3

\* ------------------------------------------ paragraphs that carry a bullet
\* the paragraph block k has a text that starts with "- "
BulletedAt(k) ==
    /\ blocks[k].kind = "paragraph"
    /\ StartsWith(blocks[k].text, <<"-", " ">>)

\* the outline line of the paragraph block k is the text t at the indent of an
\* unbulleted paragraph under the same heading, behind "- " unless t is a property
RenderedAs(k, t) ==
    /\ SpaceRun(outline_lines[k]) = 2 * LastHeadingLevel(k - 1)
    /\ \A j \in 1..(blk - 1) :
          (/\ blocks[j].kind = "paragraph"
           /\ ~BulletedAt(j)
           /\ LastHeadingLevel(j - 1) = LastHeadingLevel(k - 1))
          => SpaceRun(outline_lines[j]) = SpaceRun(outline_lines[k])
    /\ DropPrefix(outline_lines[k], SpaceRun(outline_lines[k])) =
           IF PropertyForm(t) THEN t ELSE <<"-", " ">> \o t

\* C24 as stated: a paragraph whose text starts with "- " is rendered without
\* that marker, with exactly one bullet marker (never "- - "), at the indent of
\* an unbulleted line under the same heading, and "- key:: value" is rendered
\* as a property line without any bullet.
C24_AsStated ==
    pc \in {"convert", "md_done"} =>
        \A k \in 1..(blk - 1) :
            BulletedAt(k) =>
                /\ RenderedAs(k, Unbulleted(blocks[k].text))
                /\ LET shown == DropPrefix(outline_lines[k],
                                           SpaceRun(outline_lines[k]))
                   IN /\ ~StartsWith(shown, <<"-", " ", "-", " ">>)
                      /\ PropertyForm(Unbulleted(blocks[k].text)) =>
                            ~StartsWith(shown, <<"-", " ">>)

\* C24 amended: the same without "never '- - '": the text behind the one marker
\* that is removed is rendered as it is, so a text with a second marker of its
\* own keeps that one.
C24_BulletedLines ==
    pc \in {"convert", "md_done"} =>
        \A k \in 1..(blk - 1) :
            BulletedAt(k) =>
                /\ RenderedAs(k, Unbulleted(blocks[k].text))
                /\ ~StartsWith(Unbulleted(blocks[k].text), <<"-", " ">>) =>
                      ~StartsWith(DropPrefix(outline_lines[k],
                                             SpaceRun(outline_lines[k])),
                                  <<"-", " ", "-", " ">>)

\* under a level-1 heading "- x" gave "  - x" and "- k:: v" gave "  k:: v"
C24_Witness ==
    /\ pc = "md_done"
    /\ Len(blocks) = 3
    /\ blocks[1].kind = "heading" /\ blocks[1].level = 1
    /\ blocks[2].text = <<"-", " ", "x">>
    /\ outline_lines[2] = <<" ", " ", "-", " ", "x">>
    /\ blocks[3].text = <<"-", " ", "k", ":", ":", " ", "v">>
    /\ outline_lines[3] = <<" ", " ", "k", ":", ":", " ", "v">>

\* ------------------------------------------------ the open section's content
\* a step of the loop or the return hands the open section to process_section
ProcessingStep ==
    /\ pc = "loop"
    /\ current_section # None
    /\ Len(hist'.processed) = Len(hist.processed) + 1

\* C25: every entry (line, indent) of the open section's content is a
\* non-heading line with its own indent, strictly greater than the section's
\* indent_level; so when a section without nested content is processed, the
\* branch that keeps the entries with indent <= indent_level emits no line.
C25_SectionContent ==
    /\ [](current_section # None =>
            \A k \in DOMAIN current_section[1].content :
                LET e == current_section[1].content[k]
                IN /\ ~is_section_heading(e[1])
                   /\ e[2] = get_indentation_level(e[1])
                   /\ e[2] > current_section[1].indent_level)
    /\ [][(ProcessingStep /\ ~has_nested_content(current_section[1])) =>
            /\ KeptContent(current_section[1]) = <<>>
            /\ process_section(current_section[1], cleaned_lines) = cleaned_lines
            /\ \/ cleaned_lines' = cleaned_lines
               \/ cleaned_lines' = Append(cleaned_lines, lines[pos])]_vars

\* a section that owned a whitespace-only line and nothing else was processed
\* and dropped
C25_Witness ==
    /\ pc = "done" /\ run = 1
    /\ \E k \in DOMAIN hist.processed :
          /\ ~hist.processed[k].kept
          /\ hist.processed[k].content_at # <<>>
          /\ hist.processed[k].at \notin Range(hist.origin)
          /\ \A p \in Range(hist.processed[k].content_at) :
                p \notin Range(hist.origin) /\ BlankAt(p)

\* ------------------------------------------------ blank lines in a section
\* the line at p is in the content of a section, open or processed, of heading h
ContentOf(p, h) ==
    \/ hist.open_at = <<h>> /\ p \in Range(hist.open_content_at)
    \/ \E k \in DOMAIN hist.processed :
          hist.processed[k].at = h /\ p \in Range(hist.processed[k].content_at)

\* the section of the heading at h was processed and dropped
Dropped(h) ==
    \E k \in DOMAIN hist.processed :
        hist.processed[k].at = h /\ ~hist.processed[k].kept

\* the lines after the heading at h up to p are whitespace-only, not empty, and
\* longer than the indentation of the heading
WhitespaceRun(h, p) ==
    /\ HeadingAt(h)
    /\ h < p
    /\ \A q \in (h + 1)..p :
          /\ lines[q] # <<>>
          /\ BlankAt(q)
          /\ Len(lines[q]) > SpaceRun(lines[h])

\* C26: a zero-length line has indent 0, closes the open section and is emitted
\* as a passthrough line, so a heading with an empty line between it and its
\* indented content is dropped while the empty line and the content are passed
\* through; a whitespace-only line has its length as indent, joins the content
\* of a section whose heading is less indented, is no nested content, and is
\* dropped with an empty section.
C26_BlankLines ==
    /\ [][(pc = "loop" /\ pos <= Len(lines) /\ lines[pos] = <<>>) =>
            /\ get_indentation_level(lines[pos]) = 0
            /\ current_section' = None
            /\ cleaned_lines' # <<>>
            /\ cleaned_lines'[Len(cleaned_lines')] = <<>>
            /\ hist'.passed = Append(hist.passed, pos)
            /\ current_section # None =>
                  Len(hist'.processed) = Len(hist.processed) + 1]_vars
    /\ [](pc = "done" =>
            /\ OriginOK
            /\ \A h \in Positions :
                  (/\ HeadingAt(h)
                   /\ h + 2 \in Positions
                   /\ lines[h + 1] = <<>>
                   /\ ~HeadingAt(h + 2))
                  => /\ Dropped(h)
                     /\ h \notin Range(hist.origin)
                     /\ h + 1 \in Range(hist.passed) /\ h + 1 \in Range(hist.origin)
                     /\ h + 2 \in Range(hist.passed) /\ h + 2 \in Range(hist.origin)
            /\ \A h, p \in Positions :
                  (/\ WhitespaceRun(h, p)
                   /\ \/ p = Len(lines)
                      \/ HeadingAt(p + 1)
                      \/ SpaceRun(lines[p + 1]) <= SpaceRun(lines[h]))
                  => /\ Dropped(h)
                     /\ \A q \in h..p : q \notin Range(hist.origin))
    /\ [](pc \in {"loop", "done"} =>
            \A h, p \in Consumed :
                WhitespaceRun(h, p) =>
                    /\ get_indentation_level(lines[p]) = Len(lines[p])
                    /\ ContentOf(p, h))

\* "##", "", " x": the heading went, the empty line and the indented line stayed
C26_Witness ==
    /\ pc = "done" /\ run = 1
    /\ Len(lines) = 3
    /\ HeadingAt(1)
    /\ lines[2] = <<>>
    /\ ~BlankAt(3) /\ ~HeadingAt(3) /\ IndentAt(3) > IndentAt(1)
    /\ cleaned_lines = <<lines[2], lines[3]>>

\* ------------------------------------------------ input without headings
\* the position of the first heading line, Len(lines) + 1 when there is none
FirstHeading ==
    LET hs == { p \in Positions : HeadingAt(p) }
    IN IF hs = {} THEN Len(lines) + 1
       ELSE CHOOSE p \in hs : \A q \in hs : p <= q

\* C27: for an input without a heading line clean_journal_content returns the
\* input unchanged, and in general every line before the first heading line is
\* emitted unchanged and in order.
C27_Frame ==
    pc = "done" =>
        /\ Len(cleaned_lines) >= FirstHeading - 1
        /\ \A p \in 1..(FirstHeading - 1) :
              /\ cleaned_lines[p] = lines[p]
              /\ hist.origin[p] = p
        /\ FirstHeading = Len(lines) + 1 =>
              /\ cleaned_lines = lines
              /\ result = content
        /\ lines = SplitLines(content)

\* an input of several lines without a heading, one of them indented, came
\* back as it was
C27_Witness ==
    /\ pc = "done" /\ run = 1
    /\ FirstHeading = Len(lines) + 1
    /\ Len(lines) >= 2
    /\ \E p \in Positions : ~BlankAt(p) /\ IndentAt(p) > 0
    /\ result = input

\* ------------------------------------------------ what the batch writes
\* the files other than f are as they were
OthersUntouched(f) ==
    /\ DOMAIN disk' = DOMAIN disk
    /\ \A g \in DOMAIN disk : g # f => disk'[g] = disk[g]

\* C28: clean_journal_files writes a file only when its cleaned content differs
\* from the content read; an unreadable, empty or already clean file is left
\* untouched and is not counted, and the count never exceeds the number of files.
C28_WriteOnlyIfChanged ==
    /\ [][(disk' # disk \/ cleaned_count' # cleaned_count) =>
            /\ pc = "done"
            /\ file_at \in DOMAIN journal_files
            /\ disk[journal_files[file_at]].readable
            /\ content = disk[journal_files[file_at]].text
            /\ content # <<>>
            /\ result # content
            /\ OthersUntouched(journal_files[file_at])
            /\ cleaned_count' # cleaned_count =>
                  /\ cleaned_count' = cleaned_count + 1
                  /\ disk'[journal_files[file_at]].text = result]_vars
    /\ [](pc \in {"files", "returned"} =>
            /\ cleaned_count <= Len(io)
            /\ Len(io) <= Len(journal_files)
            /\ \A k \in DOMAIN io :
                  io[k].op \in {"read_failed", "empty", "unchanged"} =>
                      /\ io[k].read = None \/ io[k].read = << <<>> >>
                            \/ io[k].cleaned = io[k].read
                      /\ io[k].read # None =>
                            disk[io[k].path].text = io[k].read[1]
            /\ cleaned_count =
                   Cardinality({ k \in DOMAIN io :
                                   /\ io[k].read # None
                                   /\ io[k].cleaned # None
                                   /\ io[k].cleaned # io[k].read
                                   /\ io[k].op = "written" })
            /\ \A k \in DOMAIN io :
                  io[k].op = "written" => io[k].cleaned # io[k].read)

\* an already clean file was left alone and a file with an empty section was
\* rewritten: one of two files counted
C28_Witness ==
    /\ pc = "returned"
    /\ Len(journal_files) = 2
    /\ io[1].op = "unchanged"
    /\ disk[journal_files[1]].text = io[1].read[1]
    /\ io[2].op = "written"
    /\ disk[journal_files[2]].text # io[2].read[1]
    /\ cleaned_count = 1

\* ------------------------------------------------ one entry per line
\* the outline entries made from the input line at p
EntriesOf(p) ==
    { k \in DOMAIN outline_lines :
        k \in DOMAIN md_hist.from /\ md_hist.from[k].at = p }

\* the input line at p is the underline of the setext heading at p - 1
UnderlineAt(p) == p > 1 /\ SetextStartAt(p - 1)

\* C29: in "lines" mode every non-blank input line gives exactly one outline
\* entry, except a setext underline consumed by the line before it, which gives
\* none; a blank line gives none; the entries are in the order of their lines.
C29_LineAccounting ==
    (pc = "md_done" /\ paragraph_mode = "lines") =>
        /\ Len(outline_lines) = Len(blocks)
        /\ Len(md_hist.from) = Len(blocks)
        /\ \A p \in DOMAIN md_lines :
              Cardinality(EntriesOf(p)) =
                  (IF Strip(md_lines[p]) = <<>> \/ UnderlineAt(p) THEN 0 ELSE 1)
        /\ \A j, k \in DOMAIN outline_lines :
              j < k => md_hist.from[j].at < md_hist.from[k].at
        /\ \A k \in DOMAIN outline_lines : md_hist.from[k].at \in DOMAIN md_lines

\* lines mode: a blank line, a setext heading and its underline gave one entry
C29_Witness ==
    /\ pc = "md_done"
    /\ paragraph_mode = "lines"
    /\ Len(md_lines) = 3
    /\ Strip(md_lines[1]) = <<>>
    /\ UnderlineAt(3)
    /\ Len(outline_lines) = 1

\* ------------------------------------------------ both loops on any text
\* texts of at most MaxTotalLines lines: blank, indented, a journal heading,
\* an ATX heading, a setext underline
TotalLinePool == {
    <<>>,
    <<" ", "x">>,
    <<"#", "#">>,
    <<"#", " ", "x">>,
    <<"-">> }
TotalTexts ==
    { JoinLines(ls) : ls \in UNION { [1..n -> TotalLinePool] : n \in 1..MaxTotalLines } }

\* before either function is called
InitTotal ==
    /\ pc = "idle"
    /\ input = <<>>
    /\ CjIdle
    /\ MdIdle
    /\ ExtIdle

\* the call clean_journal_content(t)
CallClean ==
    /\ pc = "idle"
    /\ \E t \in TotalTexts :
          /\ input' = t
          /\ content' = t
    /\ run' = 1
    /\ pc' = "start"
    /\ UNCHANGED <<lines, pos, cleaned_lines, current_section, result, first, hist>>
    /\ UNCHANGED <<md_vars, ext_vars>>

\* the call parse_markdown_blocks(t, mode)
CallParse ==
    /\ pc = "idle"
    /\ \E t \in TotalTexts, mode \in {"lines", "blocks"} :
          /\ markdown_text' = t
          /\ paragraph_mode' = mode
    /\ pc' = "md_start"
    /\ UNCHANGED <<md_lines, i, blocks, pending_paragraph_lines, outline_lines,
                   current_heading_level, blk, outline, md_hist>>
    /\ UNCHANGED <<cj_vars, ext_vars>>

NextTotal ==
    \/ CallClean
    \/ CallParse
    \/ Start
    \/ HeadingLine
    \/ ShallowLine
    \/ DeeperLine
    \/ PassthroughLine
    \/ Finish
    \/ MdStart
    \/ ParseBlank
    \/ ParseAtx
    \/ ParseSetext
    \/ ParseLine
    \/ ParsePending
    \/ ParseEnd

\* a running function always takes its next step
SpecTotal == InitTotal /\ [][NextTotal]_vars /\ WF_vars(NextTotal)

\* a call has been made and its loop has not begun
Called == pc \in {"start", "md_start"}

\* the called function has returned with every line of its input behind it
Returned ==
    \/ pc = "done" /\ markdown_text = <<>> /\ pos = Len(lines) + 1
    \/ pc = "convert" /\ content = <<>> /\ i = Len(md_lines) + 1

\* C30: on every finite input clean_journal_content and parse_markdown_blocks
\* come to their end without error; in parse_markdown_blocks every pass of the
\* loop raises the line index by 1, or by 2 when the line after is consumed as
\* a setext underline, and no other line is stepped over.
C30_Totality ==
    /\ [][(pc = "parse" /\ i <= Len(md_lines)) =>
            \/ i' = i + 1
            \/ /\ i' = i + 2
               /\ i + 1 <= Len(md_lines)
               /\ is_setext_underline(md_lines[i + 1]) # 0
               /\ Len(blocks') = Len(blocks) + 1 \/ Len(blocks') = Len(blocks) + 2
               /\ blocks'[Len(blocks')] =
                      Block("heading", is_setext_underline(md_lines[i + 1]),
                            Strip(md_lines[i]))]_vars
    /\ [][(pc = "loop" /\ pos <= Len(lines)) => pos' = pos + 1]_vars
    /\ [](pc = "parse" => i \in 1..(Len(md_lines) + 1))
    /\ [](pc = "loop" => pos \in 1..(Len(lines) + 1))
    /\ Called ~> Returned

\* parse_markdown_blocks ended after a pass that stepped over an underline
C30_Witness ==
    /\ pc = "convert"
    /\ i = Len(md_lines) + 1
    /\ Len(md_lines) >= 2
    /\ \E k \in DOMAIN md_hist.from :
          md_hist.from[k].how = "setext" /\ md_hist.from[k].at = Len(md_lines) - 1

====
